---- MODULE Spec2Model ----
(***************************************************************************)
(* The owner-side changefeed controller of ticdc (cdc/changefeed.go) and   *)
(* the DDL handler that feeds it (cdc/owner_operator.go), as a state       *)
(* machine.  Timestamps are small naturals; math.MaxUint64 is Inf.         *)
(***************************************************************************)
EXTENDS Integers, Naturals, Sequences, FiniteSets, TLC

\* ------------------------------------------------------------------ bounds
\* the largest commit ts the DDL puller delivers
MaxTs == 4
StartTs == 0
\* the largest finishedTs of a DDL job (resolved events go on up to MaxTs)
MaxJobTs == 2
MaxJobs == 2
\* how often schema.HandleDDL is let succeed before a failing FillSchemaName
MaxSnapshotJobs == 1
\* how many DDL jobs the table balance receives
MaxTableJobs == 1
\* the tables a processor is given
ProcessorTables == {1, 2}
\* how many transactions the puller of one table delivers
MaxTxns == 2
\* how many transactions the goroutines of the rejected channels of one table receive
MaxRejectedTxns == 1
\* the largest commit ts of a transaction
MaxCommitTs == 3
\* the size of txnChannel.outputTxn (SetInputChan)
chanSize == 64
\* how many events the puller buffer holds
BufferSize == 2
\* how many AddEntry calls the producer makes
MaxAdds == 3
\* the largest ts of an event given to the buffer
MaxEventTs == 2
\* how many DMLs a transaction given to FilterTxn has
MaxDMLs == 2
\* the largest Ts of a transaction given to FilterTxn
MaxTxnTs == 2
\* how many DMLs a transaction given to a writer has
MaxRows == 2
\* the largest resolved ts given to a writer
MaxMsgTs == 2

Ts == 0..MaxTs
\* the timestamps a capture can report
PosTs == 0..MaxTs
\* math.MaxUint64
Inf == MaxTs + 1
\* changeFeed.targetTs (info.GetTargetTs()): below MaxTs, so that positions and
\* the DDL puller can pass it
TargetTs == MaxTs - 1

Captures == {"c1", "c2"}
SchemaID == 1

\* model.ChangeFeedDDLState
ChangeFeedSyncDML == "SyncDML"
ChangeFeedWaitToExecDDL == "WaitToExecDDL"
ChangeFeedExecDDL == "ExecDDL"
ChangeFeedDDLExecuteFailed == "DDLExecuteFailed"

\* the errors a call returns: none, model.ErrExecDDLFailed, any other
Nil == "nil"
ErrExecDDLFailed == "ErrExecDDLFailed"
ErrOther == "error"

VARIABLES
    status,             \* changeFeed.status: [ResolvedTs, CheckpointTs]
    ddlState,           \* changeFeed.ddlState
    taskStatus,         \* changeFeed.taskStatus: CaptureID -> [Tables, Operation]
    ddlResolvedTs,      \* changeFeed.ddlResolvedTs
    ddlJobHistory,      \* changeFeed.ddlJobHistory
    ddlExecutedTs,      \* changeFeed.ddlExecutedTs
    schemas,            \* changeFeed.schemas: SchemaID -> set of TableID
    tables,             \* changeFeed.tables (its key set)
    partitions,         \* changeFeed.partitions: TableID -> sequence of partition ids
    orphanTables,       \* changeFeed.orphanTables: TableID -> startTs
    toCleanTables,      \* changeFeed.toCleanTables: TableID -> targetTs
    hResolvedTS,        \* ddlHandler.resolvedTS
    hDdlJobs,           \* ddlHandler.ddlJobs
    pullerTs,           \* commit ts of the last entry of puller.SortedOutput
    numJobs,            \* DDL jobs received so far (the next job's ID)
    snapshotJobs,       \* jobs schema.HandleDDL applied to the snapshot, in order
    sinkDDLs,           \* jobs passed to sink.EmitDDLEvent, in order
    sinkCheckpoints,    \* the last value passed to sink.EmitCheckpointTs
    appended,           \* the jobs pullDDLJob appended to ddlJobHistory so far
    todoAddOperations,  \* CaptureID -> the Add operations of the rebalance under way
    ret,                \* the error the owner's last call returned
    tableInputChans,    \* processorImpl.tableInputChans: table -> txnChannel
    tableResolvedTS,    \* processorImpl.tableResolvedTS: table -> TS of its latest transaction
    resolvedEntries,    \* the entries sent on processorImpl.resolvedEntries, in order
    executedEntries,    \* how many of them the consumer has sent on executedEntries
    forwards,           \* the tables whose Forward goroutine has not returned
    workers,            \* where each of the three workers of the processor is
    lastGlobalResolvedTS, \* the local variable of globalResolvedWorker
    checkpointTS,       \* the local variable of checkpointWorker
    tsRWriter,          \* the storage behind ProcessorTSRWriter
    rejectedChans,      \* per table with a channel SetInputChan rejected: the commit ts
                        \* the goroutines of its rejected channels received
    closed,             \* processorImpl.closed is closed
    consuming,          \* the consumer is receiving from ResolvedChan
    bufferChan,         \* the events the puller buffer holds, oldest first
    addCtx,             \* the context of the AddEntry calls: live or its error
    addCall,            \* the event of the AddEntry call under way, if any
    addResults,         \* the event and the error of every AddEntry call that returned
    gotEntries,         \* the events the Get calls returned, in order
    filterRules,        \* the tables the filter rules of the changefeed reject
    txnIn,              \* the transaction FilterTxn is given
    txnOut,             \* the transaction as FilterTxn leaves it
    message,            \* the message given to a writer of the sink
    data,               \* the bytes the writer produced, as they reach the reader
    altered,            \* a byte of the body of data was changed on the way
    decoded,            \* what reader.Decode returned for data
    cyclicEnabled       \* changeFeed.cyclicEnabled

\* the variables of the processor
processorVars == <<tableInputChans, tableResolvedTS, resolvedEntries, executedEntries,
                   forwards, workers, lastGlobalResolvedTS, checkpointTS, tsRWriter,
                   rejectedChans, closed, consuming>>

\* the variables of the puller buffer
bufferVars == <<bufferChan, addCtx, addCall, addResults, gotEntries>>

\* the variables of the transaction filter
filterVars == <<filterRules, txnIn, txnOut>>

\* the variables of the message envelope
envelopeVars == <<message, data, altered, decoded>>

\* the variables no call of the owner changes: the mode of the changefeed and
\* the components other than the owner
componentVars == <<cyclicEnabled, processorVars, bufferVars, filterVars, envelopeVars>>

\* the variables of the owner
ownerVars == <<status, ddlState, taskStatus, ddlResolvedTs, ddlJobHistory,
               ddlExecutedTs, schemas, tables, partitions, orphanTables, toCleanTables,
               hResolvedTS, hDdlJobs, pullerTs, numJobs, snapshotJobs, sinkDDLs,
               sinkCheckpoints, appended, todoAddOperations, ret, cyclicEnabled>>

vars == <<ownerVars, componentVars>>

\* every variable but ret
stateVars == <<status, ddlState, taskStatus, ddlResolvedTs, ddlJobHistory,
               ddlExecutedTs, schemas, tables, partitions, orphanTables, toCleanTables,
               hResolvedTS, hDdlJobs, pullerTs, numJobs, snapshotJobs, sinkDDLs,
               sinkCheckpoints, appended, todoAddOperations>>

cfVars == <<status, ddlState, ddlResolvedTs, ddlJobHistory, ddlExecutedTs>>
tableVars == <<schemas, tables, partitions, orphanTables, toCleanTables>>
handlerVars == <<hResolvedTS, hDdlJobs, pullerTs, numJobs>>
sinkVars == <<snapshotJobs, sinkDDLs, sinkCheckpoints>>

\* ------------------------------------------------------------------ helpers
Min(a, b) == IF a < b THEN a ELSE b

MinOf(S, top) == IF S = {} THEN top ELSE Min(top, CHOOSE x \in S : \A y \in S : x <= y)

Range(f) == {f[x] : x \in DOMAIN f}

EmptyMap == [x \in {} |-> 0]

MapPut(f, k, v) == [x \in DOMAIN f \cup {k} |-> IF x = k THEN v ELSE f[x]]

MapDel(f, k) == [x \in DOMAIN f \ {k} |-> f[x]]

\* ------------------------------------------------------------------ model.TaskStatus
\* TaskStatus.SomeOperationsUnapplied: some operation is not yet applied
SomeOperationsUnapplied(st) == \E t \in DOMAIN st.Operation : ~st.Operation[t].Done

\* TaskStatus.AppliedTs: a ts <= the boundary of every unapplied operation
AppliedTs(st) ==
    MinOf({st.Operation[t].BoundaryTs : t \in {u \in DOMAIN st.Operation : ~st.Operation[u].Done}},
          Inf)

\* ------------------------------------------------------------------ ddlHandler
\* The DDL kinds the puller delivers here.  "DropView" stands for a type that
\* filter.ShouldDiscardDDL discards; Ineligible is what
\* schema.IsIneligibleTableID answers for the job's table once the job is applied.
JobShapes ==
    {[Type |-> "DropTable", TableID |-> 1, TableInfoID |-> 0, Ineligible |-> FALSE],
     [Type |-> "AddColumn", TableID |-> 1, TableInfoID |-> 1, Ineligible |-> FALSE],
     [Type |-> "AddColumn", TableID |-> 1, TableInfoID |-> 1, Ineligible |-> TRUE],
     [Type |-> "DropView", TableID |-> 0, TableInfoID |-> 0, Ineligible |-> FALSE]}

\* filter.ShouldDiscardDDL
ShouldDiscardDDL(type) == type = "DropView"

NewJob(id, shape, ts) ==
    [ID |-> id, Type |-> shape.Type, TableID |-> shape.TableID,
     TableInfoID |-> shape.TableInfoID, Ineligible |-> shape.Ineligible,
     Partitions |-> <<>>, FinishedTS |-> ts]

\* What puller.SortedOutput can deliver next: a resolved event or a DDL job
\* (Skip: a job entry.SkipJob skips)
RawDDLs ==
    [OpType : {"Resolved"}, Ts : Ts, Skip : {FALSE}, Shape : {0}]
        \cup [OpType : {"Put"}, Ts : 1..MaxJobTs, Skip : {FALSE}, Shape : JobShapes]

\* The order of puller.SortedOutput: commit ts never goes back, and after
\* Resolved(ts) no entry has a commit ts <= ts.  The puller starts at the
\* changefeed's checkpoint (newDDLHandler).
SortedOutput(rawDDL) ==
    /\ rawDDL.Ts >= pullerTs
    /\ rawDDL.Ts > StartTs
    /\ rawDDL.Ts > hResolvedTS
    /\ rawDDL.OpType = "Put" /\ ~rawDDL.Skip => numJobs < MaxJobs

receiveDDL(rawDDL) ==
    /\ pullerTs' = rawDDL.Ts
    /\ IF rawDDL.OpType = "Resolved"
       THEN /\ hResolvedTS' = rawDDL.Ts
            /\ UNCHANGED <<hDdlJobs, numJobs>>
       ELSE IF rawDDL.Skip
       THEN UNCHANGED <<hResolvedTS, hDdlJobs, numJobs>>
       ELSE /\ hDdlJobs' = Append(hDdlJobs, NewJob(numJobs + 1, rawDDL.Shape, rawDDL.Ts))
            /\ numJobs' = numJobs + 1
            /\ UNCHANGED hResolvedTS
    /\ UNCHANGED <<cfVars, tableVars, sinkVars, taskStatus, appended, todoAddOperations, ret>>

\* variant of PullDDL: only the first job of the queue is returned
PullDDL_firstJob ==
    [resolvedTs |-> hResolvedTS, jobs |-> IF hDdlJobs = <<>> THEN <<>> ELSE <<Head(hDdlJobs)>>]

\* ddlHandler.PullDDL: the resolved ts and the queued jobs; the queue is emptied
PullDDL == [resolvedTs |-> hResolvedTS, jobs |-> hDdlJobs]

\* ------------------------------------------------------------------ calcResolvedTs
\* changeFeed.pullDDLJob: the jobs the filter keeps, appended to the history
pullDDLJob(history, jobs) ==
    history \o SelectSeq(jobs, LAMBDA job : ~ShouldDiscardDDL(job.Type))

\* variant of dropExecutedJobs: the history is left as it is
dropExecutedJobs_none(history, executedTs) == history

\* the loop that drops the jobs already executed from the head of the history
RECURSIVE dropExecutedJobs(_, _)
dropExecutedJobs(history, executedTs) ==
    IF Len(history) > 0 /\ history[1].FinishedTS <= executedTs
    THEN dropExecutedJobs(Tail(history), executedTs)
    ELSE history

\* variant of positionsResolvedTs: the minimum starts from math.MaxUint64
positionsResolvedTs_noTarget(positions, targetTs) ==
    MinOf({positions[c].ResolvedTs : c \in DOMAIN positions}, Inf)

\* the minima over the reported positions, starting from targetTs
positionsResolvedTs(positions, targetTs) ==
    MinOf({positions[c].ResolvedTs : c \in DOMAIN positions}, targetTs)

positionsCheckpointTs(positions, targetTs, st) ==
    IF DOMAIN positions = {}
    THEN st.ResolvedTs
    ELSE MinOf({positions[c].CheckPointTs : c \in DOMAIN positions}, targetTs)

\* variant of boundaryTs: the orphan tables do not hold the minimum back
boundaryTs_noOrphans(m, infos, orphans, toClean) ==
    MinOf({AppliedTs(infos[c]) : c \in DOMAIN infos} \cup Range(toClean), m)

\* the clamps by unapplied operations, orphan tables and tables to clean
boundaryTs(m, infos, orphans, toClean) ==
    MinOf({AppliedTs(infos[c]) : c \in DOMAIN infos} \cup Range(orphans) \cup Range(toClean), m)

\* variant of shouldWaitDDL: the head job waits already when minResolvedTs
\* has reached its finishedTs
shouldWaitDDL_atEqual(history, minResolvedTs) ==
    Len(history) > 0 /\ minResolvedTs >= history[1].FinishedTS

\* a head job waits for execution once minResolvedTs has passed its finishedTs
shouldWaitDDL(history, minResolvedTs) ==
    Len(history) > 0 /\ minResolvedTs > history[1].FinishedTS

\* variant of clampCheckpointTs: the checkpoint is taken as computed
clampCheckpointTs_noClamp(minCheckpointTs, minResolvedTs) == minCheckpointTs

\* the checkpoint never passes the resolved ts (the MQ sink does not promise it)
clampCheckpointTs(minCheckpointTs, minResolvedTs) ==
    IF minCheckpointTs > minResolvedTs THEN minResolvedTs ELSE minCheckpointTs

\* variant of advanceTs: the status field is overwritten
advanceTs_assign(current, minTs) == minTs

\* a status field moves only forward
advanceTs(current, minTs) == IF minTs > current THEN minTs ELSE current

\* the checkpoint is emitted to the sink unless a DDL is waiting
\* variant of shouldEmitCheckpoint: the checkpoint is emitted in every state
shouldEmitCheckpoint_always(state) == TRUE

shouldEmitCheckpoint(state) == state # ChangeFeedWaitToExecDDL

\* variant of canCalcResolvedTs: calcResolvedTs works in every state
canCalcResolvedTs_always(state) == TRUE

\* calcResolvedTs works in these states only
canCalcResolvedTs(state) == state \in {ChangeFeedSyncDML, ChangeFeedWaitToExecDDL}

\* the part of calcResolvedTs that asks the DDL handler: only when the
\* minimum has passed ddlResolvedTs
pulledDDL(minResolvedTs) ==
    IF minResolvedTs > ddlResolvedTs
    THEN [pull |-> TRUE, resolvedTs |-> PullDDL.resolvedTs,
          history |-> pullDDLJob(ddlJobHistory, PullDDL.jobs)]
    ELSE [pull |-> FALSE, resolvedTs |-> ddlResolvedTs, history |-> ddlJobHistory]

\* variant of beforeBarrierOf: the minimum is not held back by ddlResolvedTs
beforeBarrierOf_noClamp(pulled, r0, c0) ==
    [pull |-> pulled.pull, resolvedTs |-> pulled.resolvedTs,
     history |-> dropExecutedJobs(pulled.history, ddlExecutedTs),
     minResolvedTs |-> r0, minCheckpointTs |-> c0]

\* calcResolvedTs up to the look at the head job of the history: whether the
\* DDL handler was asked, ddlResolvedTs, the history with the executed jobs
\* dropped, and the two minima
beforeBarrierOf(pulled, r0, c0) ==
    [pull |-> pulled.pull, resolvedTs |-> pulled.resolvedTs,
     history |-> dropExecutedJobs(pulled.history, ddlExecutedTs),
     minResolvedTs |-> Min(r0, pulled.resolvedTs), minCheckpointTs |-> c0]

minResolvedTsOf(taskPositions) ==
    boundaryTs(positionsResolvedTs(taskPositions, TargetTs), taskStatus, orphanTables,
               toCleanTables)

minCheckpointTsOf(taskPositions) ==
    boundaryTs(positionsCheckpointTs(taskPositions, TargetTs, status), taskStatus,
               orphanTables, toCleanTables)

beforeBarrier(taskPositions) ==
    beforeBarrierOf(pulledDDL(minResolvedTsOf(taskPositions)), minResolvedTsOf(taskPositions),
                    minCheckpointTsOf(taskPositions))

\* variant of ddlBarrier: the state changes, the minimum is not held back
ddlBarrier_noClamp(history, minResolvedTs, minCheckpointTs, state) ==
    [minResolvedTs |-> minResolvedTs,
     minCheckpointTs |-> clampCheckpointTs(minCheckpointTs, minResolvedTs),
     state |-> IF shouldWaitDDL(history, minResolvedTs)
               THEN ChangeFeedWaitToExecDDL ELSE state]

\* the part of calcResolvedTs that stops at the head job of the history
ddlBarrier(history, minResolvedTs, minCheckpointTs, state) ==
    IF shouldWaitDDL(history, minResolvedTs)
    THEN [minResolvedTs |-> history[1].FinishedTS,
          minCheckpointTs |-> clampCheckpointTs(minCheckpointTs, history[1].FinishedTS),
          state |-> ChangeFeedWaitToExecDDL]
    ELSE [minResolvedTs |-> minResolvedTs,
          minCheckpointTs |-> clampCheckpointTs(minCheckpointTs, minResolvedTs),
          state |-> state]

\* sinkErr: sink.EmitCheckpointTs fails (it can only when it is called).  It
\* is the last call: its error is returned with the status already updated.
calcResolvedTs(taskPositions, sinkErr) ==
    IF \/ ~canCalcResolvedTs(ddlState)
       \/ Cardinality(DOMAIN taskPositions) < Cardinality(DOMAIN taskStatus)
    THEN ~sinkErr /\ ret' = Nil /\ UNCHANGED stateVars
    ELSE
      \E before \in {beforeBarrier(taskPositions)} :
      \E min \in {ddlBarrier(before.history, before.minResolvedTs, before.minCheckpointTs,
                             ddlState)} :
      \E emit \in {/\ min.minCheckpointTs > status.CheckpointTs
                    /\ shouldEmitCheckpoint(min.state)} :
          /\ sinkErr => emit
          /\ ret' = IF sinkErr THEN ErrOther ELSE Nil
          /\ ddlResolvedTs' = before.resolvedTs
          /\ ddlJobHistory' = before.history
          /\ hDdlJobs' = IF before.pull THEN <<>> ELSE hDdlJobs
          /\ appended' = IF before.pull
                         THEN appended \cup Range(pullDDLJob(<<>>, hDdlJobs))
                         ELSE appended
          /\ ddlState' = min.state
          /\ status' = [ResolvedTs |-> advanceTs(status.ResolvedTs, min.minResolvedTs),
                        CheckpointTs |-> advanceTs(status.CheckpointTs, min.minCheckpointTs)]
          /\ sinkCheckpoints' = IF emit THEN min.minCheckpointTs ELSE sinkCheckpoints
          /\ UNCHANGED <<ddlExecutedTs, tableVars, hResolvedTS, pullerTs, numJobs,
                         snapshotJobs, sinkDDLs, taskStatus, todoAddOperations>>

\* ------------------------------------------------------------------ table set
\* pkg/filter Filter.ShouldIgnoreTable: this changefeed's rules keep every table
ShouldIgnoreTable(tid) == FALSE

\* the owner's table bookkeeping, passed through applyJob as one record
TableState(s, t, p, o, c) ==
    [schemas |-> s, tables |-> t, partitions |-> p, orphanTables |-> o, toCleanTables |-> c]

\* variant of removeFunc: every table removed is to clean
removeFunc_always(tv, id, targetTs) ==
    [tv EXCEPT !.toCleanTables = MapPut(@, id, targetTs)]

\* removeFunc of removeTable: an orphan is forgotten, an assigned table is to clean
removeFunc(tv, id, targetTs) ==
    IF id \in DOMAIN tv.orphanTables
    THEN [tv EXCEPT !.orphanTables = MapDel(@, id)]
    ELSE [tv EXCEPT !.toCleanTables = MapPut(@, id, targetTs)]

RECURSIVE removeAll(_, _, _)
removeAll(tv, pids, targetTs) ==
    IF pids = <<>> THEN tv
    ELSE removeAll(removeFunc(tv, Head(pids), targetTs), Tail(pids), targetTs)

removeTable(tv, sid, tid, targetTs) ==
    LET tv1 == [tv EXCEPT !.schemas = [s \in DOMAIN @ |-> IF s = sid THEN @[s] \ {tid} ELSE @[s]],
                          !.tables = @ \ {tid}]
    IN  IF tid \in DOMAIN tv1.partitions
        THEN [removeAll(tv1, tv1.partitions[tid], targetTs) EXCEPT !.partitions = MapDel(@, tid)]
        ELSE removeFunc(tv1, tid, targetTs)

RECURSIVE orphanAll(_, _, _)
orphanAll(orphans, pids, startTs) ==
    IF pids = <<>> THEN orphans
    ELSE orphanAll(MapPut(orphans, Head(pids), startTs), Tail(pids), startTs)

addTable(tv, sid, tid, startTs, job) ==
    IF ShouldIgnoreTable(tid) \/ tid \in tv.tables
    THEN tv
    ELSE LET tv1 == [tv EXCEPT !.schemas = MapPut(@, sid, (IF sid \in DOMAIN @ THEN @[sid] ELSE {})
                                                            \cup {tid}),
                               !.tables = @ \cup {tid}]
         IN  IF job.Partitions # <<>>
             THEN [tv1 EXCEPT !.partitions = MapPut(@, tid, job.Partitions),
                              !.orphanTables = orphanAll(@, job.Partitions, startTs)]
             ELSE [tv1 EXCEPT !.orphanTables = MapPut(@, tid, startTs)]

addSchema(tv, sid) ==
    IF sid \in DOMAIN tv.schemas THEN tv ELSE [tv EXCEPT !.schemas = MapPut(@, sid, {})]

RECURSIVE removeTables(_, _, _, _)
removeTables(tv, sid, tids, targetTs) ==
    IF tids = {} THEN tv
    ELSE LET tid == CHOOSE t \in tids : TRUE
         IN  removeTables(removeTable(tv, sid, tid, targetTs), sid, tids \ {tid}, targetTs)

dropSchema(tv, sid, targetTs) ==
    LET tv1 == IF sid \in DOMAIN tv.schemas
               THEN removeTables(tv, sid, tv.schemas[sid], targetTs)
               ELSE tv
    IN  [tv1 EXCEPT !.schemas = MapDel(@, sid)]

\* changeFeed.applyJob.  nameFound is what schema.GetTableNameByID answers.
\* The result carries the table state, skip and err.
applyJob(tv, job, nameFound) ==
    IF job.TableInfoID # 0 /\ job.Ineligible
    THEN [tv |-> IF job.TableInfoID \in tv.tables
                 THEN removeTable(tv, SchemaID, job.TableInfoID, job.FinishedTS)
                 ELSE tv,
          skip |-> TRUE, err |-> FALSE]
    ELSE CASE job.Type = "CreateSchema" ->
                [tv |-> addSchema(tv, SchemaID), skip |-> FALSE, err |-> FALSE]
           [] job.Type = "DropSchema" ->
                [tv |-> dropSchema(tv, SchemaID, job.FinishedTS), skip |-> FALSE, err |-> FALSE]
           [] job.Type \in {"CreateTable", "RecoverTable"} ->
                IF ~nameFound
                THEN [tv |-> tv, skip |-> FALSE, err |-> TRUE]
                ELSE [tv |-> addTable(tv, SchemaID, job.TableInfoID, job.FinishedTS, job),
                      skip |-> FALSE, err |-> FALSE]
           [] job.Type = "DropTable" ->
                [tv |-> removeTable(tv, SchemaID, job.TableID, job.FinishedTS),
                 skip |-> FALSE, err |-> FALSE]
           [] job.Type = "RenameTable" ->
                [tv |-> tv, skip |-> FALSE, err |-> ~nameFound]
           [] job.Type = "TruncateTable" ->
                LET tv1 == removeTable(tv, SchemaID, job.TableID, job.FinishedTS)
                IN  IF ~nameFound
                    THEN [tv |-> tv1, skip |-> FALSE, err |-> TRUE]
                    ELSE [tv |-> addTable(tv1, SchemaID, job.TableInfoID, job.FinishedTS, job),
                          skip |-> FALSE, err |-> FALSE]
           [] OTHER -> [tv |-> tv, skip |-> FALSE, err |-> FALSE]

\* ------------------------------------------------------------------ balancing
\* new(model.TaskStatus)
NewTaskStatus == [Tables |-> EmptyMap, Operation |-> EmptyMap]

TableOperation(delete, ts) == [Delete |-> delete, BoundaryTs |-> ts, Done |-> FALSE]

\* findTaskStatusWithTable: the captures the walk over the map can answer
findTaskStatusWithTable(infos, tableID) ==
    {cid \in DOMAIN infos : tableID \in DOMAIN infos[cid].Tables}

\* variant of appendTaskOperation: the new operation replaces the one there
appendTaskOperation_overwrite(targetOperations, tableID, operation) ==
    MapPut(targetOperations, tableID, operation)

appendTaskOperation(targetOperations, tableID, operation) ==
    IF tableID \in DOMAIN targetOperations
    THEN IF targetOperations[tableID].Delete # operation.Delete
         THEN MapDel(targetOperations, tableID)
         ELSE targetOperations
    ELSE MapPut(targetOperations, tableID, operation)

\* the status balanceOrphanTables works on for a capture: the new one if there
\* is one already, else a clone of the current one, else an empty one
workingStatus(newTaskStatus, infos, cid) ==
    IF cid \in DOMAIN newTaskStatus THEN newTaskStatus[cid]
    ELSE IF cid \in DOMAIN infos THEN infos[cid]
    ELSE NewTaskStatus

\* balanceOrphanTables, the cleanups: owner[id] is the capture found for id
RECURSIVE cleanTables(_, _, _, _, _)
cleanTables(newTaskStatus, infos, toClean, owner, ids) ==
    IF ids = {} THEN newTaskStatus
    ELSE LET id == CHOOSE t \in ids : TRUE
             st == workingStatus(newTaskStatus, infos, owner[id])
             st1 == [Tables |-> MapDel(st.Tables, id),
                     Operation |-> appendTaskOperation(st.Operation, id,
                                                       TableOperation(TRUE, toClean[id]))]
         IN  cleanTables(MapPut(newTaskStatus, owner[id], st1), infos, toClean, owner,
                         ids \ {id})

\* scheduler.DistributeTables: every orphan table is given to a live capture
DistributeTables(orphans, captureIDs) == [DOMAIN orphans -> captureIDs]

\* balanceOrphanTables, the additions: operations[id] is the capture id goes to
RECURSIVE dispatchTables(_, _, _, _, _)
dispatchTables(newTaskStatus, infos, orphans, operations, ids) ==
    IF ids = {} THEN newTaskStatus
    ELSE LET id == CHOOSE t \in ids : TRUE
             st == workingStatus(newTaskStatus, infos, operations[id])
             st1 == [Tables |-> MapPut(st.Tables, id, orphans[id]),
                     Operation |-> appendTaskOperation(st.Operation, id,
                                                       TableOperation(FALSE, orphans[id]))]
         IN  dispatchTables(MapPut(newTaskStatus, operations[id], st1), infos, orphans,
                            operations, ids \ {id})

\* changeFeed.updateTaskStatus: the statuses of `written` reach the store and
\* c.taskStatus; the walk stops at the first AtomicPutTaskStatus that fails
updateTaskStatus(infos, newTaskStatus, written) ==
    [cid \in DOMAIN infos \cup written |-> IF cid \in written THEN newTaskStatus[cid] ELSE infos[cid]]

\* the end of balanceOrphanTables: updateTaskStatus, then the tables dispatched
\* and cleaned are forgotten.  One outcome for each set of statuses written
\* before an AtomicPutTaskStatus fails, and the one where none fails.
balanceOutcomes(infos, newTaskStatus, orphans, operations, toClean) ==
    {IF written = DOMAIN newTaskStatus
     THEN [taskStatus |-> updateTaskStatus(infos, newTaskStatus, written),
           orphanTables |-> [id \in DOMAIN orphans \ DOMAIN operations |-> orphans[id]],
           toCleanTables |-> EmptyMap,
           err |-> FALSE]
     ELSE [taskStatus |-> updateTaskStatus(infos, newTaskStatus, written),
           orphanTables |-> orphans,
           toCleanTables |-> toClean,
           err |-> TRUE]
     : written \in SUBSET DOMAIN newTaskStatus}

\* variant of skipBalance: only the lack of captures skips the balance
skipBalance_noCaptures(captures, infos) == captures = {}

\* the early returns of balanceOrphanTables and rebanlanceTables: no capture is
\* live, or some capture has an operation it has not applied
skipBalance(captures, infos) ==
    captures = {} \/ \E cid \in DOMAIN infos : SomeOperationsUnapplied(infos[cid])

\* changeFeed.balanceOrphanTables (cyclic replication off): every outcome, as
\* [taskStatus, orphanTables, toCleanTables, err]
balanceOrphanTables(captures, infos, orphans, toClean) ==
    IF skipBalance(captures, infos)
    THEN {[taskStatus |-> infos, orphanTables |-> orphans, toCleanTables |-> toClean,
           err |-> FALSE]}
    ELSE
      LET found == {id \in DOMAIN toClean : findTaskStatusWithTable(infos, id) # {}}
          toClean1 == [id \in found |-> toClean[id]]
          owners == {o \in [found -> Captures] :
                        \A id \in found : o[id] \in findTaskStatusWithTable(infos, id)}
      IN  UNION {balanceOutcomes(infos,
                                 dispatchTables(cleanTables(EmptyMap, infos, toClean1, owner, found),
                                                infos, orphans, operations, DOMAIN operations),
                                 orphans, operations, toClean1) :
                    owner \in owners, operations \in DistributeTables(orphans, captures)}

\* ------------------------------------------------------------------ rebalancing
RECURSIVE appendTaskOperations(_, _)
appendTaskOperations(targetOperations, toAppendOperations) ==
    IF DOMAIN toAppendOperations = {} THEN targetOperations
    ELSE LET tableID == CHOOSE t \in DOMAIN toAppendOperations : TRUE
         IN  appendTaskOperations(appendTaskOperation(targetOperations, tableID,
                                                      toAppendOperations[tableID]),
                                  MapDel(toAppendOperations, tableID))

\* ------------------------------------------------------------------ cyclic replication
\* The tables of cyclic replication: 11 and 12 are mark tables (cyclic.IsMarkTable),
\* and the mark table of every other table is the one of them that is in the
\* schema snapshot (cyclic.MarkTableName, schema.GetTableIDByName)
MarkTableIDs == {11, 12}

IsMarkTable(tableID) == tableID \in MarkTableIDs

GetMarkTableID(snapshot, tableID) == snapshot \cap MarkTableIDs

\* changeFeed.minimumTablesCapture: the captures the walk over the map can answer
minimumTablesCapture(captures, infos, newTaskStatus) ==
    {cid \in captures :
        \A other \in captures :
            Cardinality(DOMAIN workingStatus(newTaskStatus, infos, cid).Tables)
               <= Cardinality(DOMAIN workingStatus(newTaskStatus, infos, other).Tables)}

\* the orphan tables the cyclic branch of balanceOrphanTables dispatches: a
\* mark table is not balanced alone, and a table waits for its mark table
orphansToDispatch(snapshot, orphans) ==
    {tableID \in DOMAIN orphans :
        /\ tableID \in snapshot
        /\ ~IsMarkTable(tableID)
        /\ GetMarkTableID(snapshot, tableID) # {}}

\* a table and its mark table are given to the capture cid
dispatchWithMark(st, tableID, marks, startTs) ==
    [Tables |-> [t \in DOMAIN st.Tables \cup {tableID} \cup marks |->
                    IF t \in {tableID} \cup marks THEN startTs ELSE st.Tables[t]],
     Operation |-> appendTaskOperations(
                       appendTaskOperation(st.Operation, tableID, TableOperation(FALSE, startTs)),
                       [t \in marks |-> TableOperation(FALSE, startTs)])]

\* balanceOrphanTables, the additions of the cyclic branch: every outcome as
\* [status, added], one for each capture selectCapture can answer
RECURSIVE dispatchCyclic(_, _, _, _, _, _)
dispatchCyclic(acc, infos, orphans, snapshot, captures, ids) ==
    IF ids = {} THEN {acc}
    ELSE LET tableID == CHOOSE t \in ids : TRUE
             marks == IF IsMarkTable(tableID) THEN {} ELSE GetMarkTableID(snapshot, tableID)
         IN  UNION {dispatchCyclic(
                        [status |-> MapPut(acc.status, cid,
                                           dispatchWithMark(workingStatus(acc.status, infos, cid),
                                                            tableID, marks, orphans[tableID])),
                         added |-> acc.added \cup {tableID} \cup marks],
                        infos, orphans, snapshot, captures, ids \ {tableID}) :
                      cid \in minimumTablesCapture(captures, infos, acc.status)}

\* changeFeed.balanceOrphanTables with cyclic replication on; snapshot is the
\* set of the tables of c.schema
balanceOrphanTablesCyclic(snapshot, captures, infos, orphans, toClean) ==
    IF skipBalance(captures, infos)
    THEN {[taskStatus |-> infos, orphanTables |-> orphans, toCleanTables |-> toClean,
           err |-> FALSE]}
    ELSE
      LET found == {id \in DOMAIN toClean : findTaskStatusWithTable(infos, id) # {}}
          toClean1 == [id \in found |-> toClean[id]]
          owners == {o \in [found -> Captures] :
                        \A id \in found : o[id] \in findTaskStatusWithTable(infos, id)}
      IN  UNION {balanceOutcomes(infos, dispatched.status, orphans,
                                 [id \in dispatched.added |-> TRUE], toClean1) :
                    dispatched \in UNION {dispatchCyclic(
                                              [status |-> cleanTables(EmptyMap, infos, toClean1,
                                                                      owner, found),
                                               added |-> {}],
                                              infos, orphans, snapshot, captures,
                                              orphansToDispatch(snapshot, orphans)) :
                                            owner \in owners}}

\* changeFeed.balanceOrphanTables in the mode of the changefeed
balanceOrphanTablesIn(cyclic, snapshot, captures, infos, orphans, toClean) ==
    IF cyclic
    THEN balanceOrphanTablesCyclic(snapshot, captures, infos, orphans, toClean)
    ELSE balanceOrphanTables(captures, infos, orphans, toClean)

\* ------------------------------------------------------------------ rebalancing, continued
\* variant of applyOperationTo: Tables stays as it is
applyOperationTo_keepTables(st, operation) ==
    [Tables |-> st.Tables, Operation |-> appendTaskOperations(st.Operation, operation)]

\* applyOperation of rebanlanceTables, for one capture: the tables deleted leave
\* Tables, the tables added enter it, and the operations are appended
applyOperationTo(st, operation) ==
    [Tables |-> [t \in (DOMAIN st.Tables \ {u \in DOMAIN operation : operation[u].Delete})
                         \cup {u \in DOMAIN operation : ~operation[u].Delete} |->
                    IF t \in DOMAIN operation THEN operation[t].BoundaryTs ELSE st.Tables[t]],
     Operation |-> appendTaskOperations(st.Operation, operation)]

\* applyOperation of rebanlanceTables on an empty newTaskStatus
applyOperation(infos, toApplyOperations) ==
    [cid \in DOMAIN toApplyOperations |->
        applyOperationTo(workingStatus(EmptyMap, infos, cid), toApplyOperations[cid])]

\* the number of tables a capture has
Workload(infos, cid) == IF cid \in DOMAIN infos THEN Cardinality(DOMAIN infos[cid].Tables) ELSE 0

\* the moves a rebalance can make: a table a capture lists goes to a live
\* capture that has at least two tables less
Moves(infos, captures) ==
    UNION {{<<from, id, to>> : id \in DOMAIN infos[from].Tables,
                               to \in {cid \in captures :
                                          Workload(infos, cid) + 2 <= Workload(infos, from)}} :
              from \in DOMAIN infos}

\* scheduler.CalRebalanceOperates: what is deleted now and added later.  One
\* table moves, or nothing moves.
CalRebalanceOperates(infos, captures, checkpointTs) ==
    {[deleteOperations |-> EmptyMap, addOperations |-> EmptyMap]}
    \cup {[deleteOperations |-> MapPut(EmptyMap, m[1],
                                       MapPut(EmptyMap, m[2], TableOperation(TRUE, checkpointTs))),
           addOperations |-> MapPut(EmptyMap, m[3],
                                    MapPut(EmptyMap, m[2], TableOperation(FALSE, checkpointTs)))] :
             m \in Moves(infos, captures)}

\* the end of rebanlanceTables: updateTaskStatus, one outcome for each set of
\* statuses written before an AtomicPutTaskStatus fails and one where none fails
rebalanceOutcomes(infos, newTaskStatus, todoOnError, todoOnSuccess) ==
    {[taskStatus |-> updateTaskStatus(infos, newTaskStatus, written),
      todoAddOperations |-> IF written = DOMAIN newTaskStatus THEN todoOnSuccess
                            ELSE todoOnError,
      err |-> written # DOMAIN newTaskStatus]
     : written \in SUBSET DOMAIN newTaskStatus}

\* changeFeed.rebanlanceTables: every outcome, as [taskStatus,
\* todoAddOperations, err].  rebanlanceNow stands for the caller's flag or ten
\* minutes since the last rebalance; one outcome is a GetTaskWorkload that fails.
rebanlanceTables(captures, infos, todo, rebanlanceNow, checkpointTs) ==
    IF skipBalance(captures, infos) \/ cyclicEnabled
    THEN {[taskStatus |-> infos, todoAddOperations |-> todo, err |-> FALSE]}
    ELSE IF DOMAIN todo # {}
    THEN rebalanceOutcomes(infos, applyOperation(infos, todo), todo, EmptyMap)
    ELSE IF ~rebanlanceNow
    THEN {[taskStatus |-> infos, todoAddOperations |-> todo, err |-> FALSE]}
    ELSE {[taskStatus |-> infos, todoAddOperations |-> todo, err |-> TRUE]}
         \cup UNION {rebalanceOutcomes(infos, applyOperation(infos, plan.deleteOperations),
                                       plan.addOperations, plan.addOperations) :
                        plan \in CalRebalanceOperates(infos, captures, checkpointTs)}

\* ------------------------------------------------------------------ handleDDL
SyncDDL == TRUE

\* The outcomes of the calls handleDDL makes outside the changefeed:
\* schema.HandleDDL, schema.FillSchemaName, schema.GetTableNameByID, sink.EmitDDLEvent
\* (the first call that fails ends handleDDL, so at most one of them fails)
AllFine == [handleErr |-> FALSE, fillErr |-> FALSE, nameFound |-> TRUE, sinkErr |-> FALSE]

Externals ==
    {AllFine, [AllFine EXCEPT !.handleErr = TRUE], [AllFine EXCEPT !.fillErr = TRUE],
     [AllFine EXCEPT !.nameFound = FALSE], [AllFine EXCEPT !.sinkErr = TRUE]}

\* all captures that have a task status have reported a position
allCapturesReported(infos, positions) ==
    ~(Cardinality(DOMAIN infos) > Cardinality(DOMAIN positions))

\* the checkpoint has reached the job to execute
checkpointReached(st, job) == st.CheckpointTs = job.FinishedTS

\* variant of finishDDL: the job stays at the head of the history
finishDDL_keepHead(history, todoDDLJob) ==
    [ddlJobHistory |-> history, ddlExecutedTs |-> todoDDLJob.FinishedTS,
     ddlState |-> ChangeFeedSyncDML]

\* the job is done: it leaves the history and the changefeed syncs DML again
finishDDL(history, todoDDLJob) ==
    [ddlJobHistory |-> Tail(history), ddlExecutedTs |-> todoDDLJob.FinishedTS,
     ddlState |-> ChangeFeedSyncDML]

\* handleDDL works in this state only
canHandleDDL(state) == state = ChangeFeedWaitToExecDDL

handleDDL(taskPositions, captures, ext) ==
    IF ~canHandleDDL(ddlState)
    THEN ret' = Nil /\ UNCHANGED stateVars
    ELSE IF Len(ddlJobHistory) = 0
    THEN UNCHANGED vars
    ELSE IF \/ ~allCapturesReported(taskStatus, taskPositions)
            \/ ~checkpointReached(status, ddlJobHistory[1])
    THEN ret' = Nil /\ UNCHANGED stateVars
    ELSE IF ext.handleErr
    THEN ret' = ErrOther /\ UNCHANGED stateVars
    ELSE
      \E todoDDLJob \in {ddlJobHistory[1]} :
      \E applied \in {applyJob(TableState(schemas, tables, partitions, orphanTables,
                                          toCleanTables), todoDDLJob, ext.nameFound)} :
          /\ snapshotJobs' = Append(snapshotJobs, todoDDLJob)
          /\ UNCHANGED <<status, ddlResolvedTs, handlerVars, sinkCheckpoints, appended,
                         todoAddOperations>>
          /\ IF ext.fillErr
             THEN /\ ret' = ErrOther
                  /\ UNCHANGED <<ddlState, ddlJobHistory, ddlExecutedTs, tableVars,
                                 sinkDDLs, taskStatus>>
             ELSE IF applied.err
             THEN /\ ret' = ErrOther
                  /\ ddlState' = ChangeFeedExecDDL
                  /\ schemas' = applied.tv.schemas
                  /\ tables' = applied.tv.tables
                  /\ partitions' = applied.tv.partitions
                  /\ orphanTables' = applied.tv.orphanTables
                  /\ toCleanTables' = applied.tv.toCleanTables
                  /\ UNCHANGED <<ddlJobHistory, ddlExecutedTs, sinkDDLs, taskStatus>>
             ELSE IF applied.skip
             THEN /\ ret' = Nil
                  /\ ddlJobHistory' = finishDDL(ddlJobHistory, todoDDLJob).ddlJobHistory
                  /\ ddlExecutedTs' = finishDDL(ddlJobHistory, todoDDLJob).ddlExecutedTs
                  /\ ddlState' = finishDDL(ddlJobHistory, todoDDLJob).ddlState
                  /\ schemas' = applied.tv.schemas
                  /\ tables' = applied.tv.tables
                  /\ partitions' = applied.tv.partitions
                  /\ orphanTables' = applied.tv.orphanTables
                  /\ toCleanTables' = applied.tv.toCleanTables
                  /\ UNCHANGED <<sinkDDLs, taskStatus>>
             ELSE \E balanced \in balanceOrphanTablesIn(cyclicEnabled, applied.tv.tables,
                                                        captures, taskStatus,
                                                        applied.tv.orphanTables,
                                                        applied.tv.toCleanTables) :
                  /\ schemas' = applied.tv.schemas
                  /\ tables' = applied.tv.tables
                  /\ partitions' = applied.tv.partitions
                  /\ orphanTables' = balanced.orphanTables
                  /\ toCleanTables' = balanced.toCleanTables
                  /\ taskStatus' = balanced.taskStatus
                  /\ IF balanced.err
                     THEN /\ ret' = ErrOther
                          /\ ddlState' = ChangeFeedExecDDL
                          /\ UNCHANGED <<ddlJobHistory, ddlExecutedTs, sinkDDLs>>
                     ELSE IF ~cyclicEnabled \/ SyncDDL
                     THEN /\ sinkDDLs' = Append(sinkDDLs, todoDDLJob)
                          /\ IF ext.sinkErr
                             THEN /\ ret' = ErrExecDDLFailed
                                  /\ ddlState' = ChangeFeedDDLExecuteFailed
                                  /\ UNCHANGED <<ddlJobHistory, ddlExecutedTs>>
                             ELSE /\ ret' = Nil
                                  /\ ddlJobHistory' = finishDDL(ddlJobHistory, todoDDLJob).ddlJobHistory
                                  /\ ddlExecutedTs' = finishDDL(ddlJobHistory, todoDDLJob).ddlExecutedTs
                                  /\ ddlState' = finishDDL(ddlJobHistory, todoDDLJob).ddlState
                     ELSE /\ ret' = Nil
                          /\ ddlJobHistory' = finishDDL(ddlJobHistory, todoDDLJob).ddlJobHistory
                          /\ ddlExecutedTs' = finishDDL(ddlJobHistory, todoDDLJob).ddlExecutedTs
                          /\ ddlState' = finishDDL(ddlJobHistory, todoDDLJob).ddlState
                          /\ UNCHANGED sinkDDLs

\* ------------------------------------------------------------------ the owner's other calls
\* changeFeed.tryBalance: balanceOrphanTables, then rebanlanceTables unless the
\* former failed
tryBalance(captures, rebanlanceNow) ==
    \E balanced \in balanceOrphanTablesIn(cyclicEnabled, tables, captures, taskStatus,
                                          orphanTables, toCleanTables) :
        /\ orphanTables' = balanced.orphanTables
        /\ toCleanTables' = balanced.toCleanTables
        /\ UNCHANGED <<cfVars, schemas, tables, partitions, handlerVars, sinkVars, appended>>
        /\ IF balanced.err
           THEN /\ taskStatus' = balanced.taskStatus
                /\ ret' = ErrOther
                /\ UNCHANGED todoAddOperations
           ELSE \E rebalanced \in rebanlanceTables(captures, balanced.taskStatus,
                                                   todoAddOperations, rebanlanceNow,
                                                   status.CheckpointTs) :
                   /\ taskStatus' = rebalanced.taskStatus
                   /\ todoAddOperations' = rebalanced.todoAddOperations
                   /\ ret' = IF rebalanced.err THEN ErrOther ELSE Nil

\* A processor applies the operations of its task status
markDone(st) == [st EXCEPT !.Operation = [t \in DOMAIN @ |-> [@[t] EXCEPT !.Done = TRUE]]]

\* ... and may then forget them
clearDone(st) == [st EXCEPT !.Operation = EmptyMap]

processorApply(cid, forget) ==
    /\ cid \in DOMAIN taskStatus
    /\ SomeOperationsUnapplied(taskStatus[cid])
    /\ taskStatus' = [taskStatus EXCEPT ![cid] = IF forget THEN clearDone(@) ELSE markDone(@)]
    /\ UNCHANGED <<cfVars, tableVars, handlerVars, sinkVars, appended, todoAddOperations, ret>>

\* The task positions changeFeed.updateProcessorInfos can hand to a tick: any
\* capture may have reported or not; c1 reports any pair (lower ones than
\* before included, the checkpoint above the resolved ts included), c2 is ahead
\* of every timestamp in use, so that the minimum is c1's
Ahead == [ResolvedTs |-> MaxTs, CheckPointTs |-> MaxTs]

PositionsOf(cid) ==
    IF cid = "c1" THEN [ResolvedTs : PosTs, CheckPointTs : PosTs] ELSE {Ahead}

TaskPositions ==
    UNION {{p \in [cids -> [ResolvedTs : PosTs, CheckPointTs : PosTs]] :
               \A cid \in cids : p[cid] \in PositionsOf(cid)} : cids \in SUBSET Captures}

\* handleDDL reads only which captures have reported
ReportedPositions == {p \in TaskPositions : \A cid \in DOMAIN p : p[cid] = Ahead}

\* ------------------------------------------------------------------ specification
\* the changefeed as the owner builds it, tids the tables of the schema
\* snapshot at its start ts
NewChangeFeed(tids, cyclic) ==
    /\ status = [ResolvedTs |-> StartTs, CheckpointTs |-> StartTs]
    /\ ddlState = ChangeFeedSyncDML
    /\ taskStatus = EmptyMap
    /\ ddlResolvedTs = 0
    /\ ddlJobHistory = <<>>
    /\ ddlExecutedTs = StartTs
    /\ schemas = [s \in {SchemaID} |-> tids]
    /\ tables = tids
    /\ partitions = EmptyMap
    /\ orphanTables = [t \in tids |-> StartTs]
    /\ toCleanTables = EmptyMap
    /\ hResolvedTS = 0
    /\ hDdlJobs = <<>>
    /\ pullerTs = StartTs
    /\ numJobs = 0
    /\ snapshotJobs = <<>>
    /\ sinkDDLs = <<>>
    /\ sinkCheckpoints = StartTs
    /\ appended = {}
    /\ todoAddOperations = EmptyMap
    /\ ret = Nil
    /\ cyclicEnabled = cyclic

\* the changefeed without cyclic replication
InitTables(tids) == NewChangeFeed(tids, FALSE)

\* the processor as NewProcessor builds it, its three workers started
NewProcessor ==
    /\ tableInputChans = EmptyMap
    /\ tableResolvedTS = EmptyMap
    /\ rejectedChans = EmptyMap
    /\ resolvedEntries = <<>>
    /\ executedEntries = 0
    /\ forwards = {}
    /\ workers = [localResolvedWorker |-> "running", checkpointWorker |-> "running",
                  globalResolvedWorker |-> "reading"]
    /\ lastGlobalResolvedTS = 0
    /\ checkpointTS = 0
    /\ tsRWriter = [resolvedTS |-> 0, checkpointTS |-> 0, globalResolvedTS |-> 0]
    /\ closed = FALSE
    /\ consuming = TRUE

\* no AddEntry call
NoEvent == [kind |-> "none", ts |-> 0]

\* the puller buffer as makeBuffer builds it
makeBuffer ==
    /\ bufferChan = <<>>
    /\ addCtx = "live"
    /\ addCall = NoEvent
    /\ addResults = <<>>
    /\ gotEntries = <<>>

\* no message was given to a writer
NoMessage == [MsgType |-> 0]

\* nothing was decoded
NotDecoded == [err |-> "none"]

NoEnvelope ==
    /\ message = NoMessage
    /\ data = <<>>
    /\ altered = FALSE
    /\ decoded = NotDecoded

\* a transaction with no DML and no DDL
EmptyTxn == [DDL |-> <<>>, DMLs |-> <<>>, Ts |-> 0]

\* no transaction was filtered, no message written
NoFilterTxn ==
    /\ filterRules = {} /\ txnIn = EmptyTxn /\ txnOut = EmptyTxn
    /\ NoEnvelope

Init == InitTables({1}) /\ NewProcessor /\ makeBuffer /\ NoFilterTxn

ReceiveDDL ==
    /\ \E rawDDL \in RawDDLs : SortedOutput(rawDDL) /\ receiveDDL(rawDDL)
    /\ UNCHANGED componentVars

\* (the operations applied stay in the task status)
ProcessorApply ==
    /\ \E cid \in Captures : processorApply(cid, FALSE)
    /\ UNCHANGED componentVars

\* (no rebalance is due)
TryBalance ==
    /\ \E captures \in SUBSET Captures : tryBalance(captures, FALSE)
    /\ UNCHANGED componentVars

\* (in the other states the call returns at once, whatever its inputs)
HandleDDL ==
    /\ IF canHandleDDL(ddlState)
       THEN \E taskPositions \in ReportedPositions, captures \in SUBSET Captures, ext \in Externals :
               /\ ext.fillErr => Len(snapshotJobs) < MaxSnapshotJobs
               /\ handleDDL(taskPositions, captures, ext)
       ELSE handleDDL(EmptyMap, {}, AllFine)
    /\ UNCHANGED componentVars

CalcResolvedTs ==
    /\ \E taskPositions \in TaskPositions, sinkErr \in BOOLEAN :
          calcResolvedTs(taskPositions, sinkErr)
    /\ UNCHANGED componentVars

Next ==
    \/ ReceiveDDL
    \/ ProcessorApply
    \/ TryBalance
    \/ HandleDDL
    \/ CalcResolvedTs

Spec == Init /\ [][Next]_vars

\* ------------------------------------------------------------------ the table balance
\* The same changefeed with two tables at its start, DDL jobs that drop and
\* create tables, every capture reporting positions ahead, no call outside the
\* changefeed failing but AtomicPutTaskStatus and GetTaskWorkload, rebalances
\* on request, and processors that may forget the operations they applied.
TableJobShapes ==
    {[Type |-> "DropTable", TableID |-> 1, TableInfoID |-> 0, Ineligible |-> FALSE],
     [Type |-> "CreateTable", TableID |-> 3, TableInfoID |-> 3, Ineligible |-> FALSE]}

TableRawDDLs ==
    [OpType : {"Resolved"}, Ts : {MaxTs}, Skip : {FALSE}, Shape : {0}]
        \cup [OpType : {"Put"}, Ts : 1..MaxJobTs, Skip : {FALSE}, Shape : TableJobShapes]

BalanceInit == InitTables({1, 2}) /\ NewProcessor /\ makeBuffer /\ NoFilterTxn

ReceiveTableDDL ==
    /\ \E rawDDL \in TableRawDDLs :
          /\ rawDDL.OpType = "Put" => numJobs < MaxTableJobs
          /\ SortedOutput(rawDDL)
          /\ receiveDDL(rawDDL)
    /\ UNCHANGED componentVars

ProcessorApplyAndForget ==
    /\ \E cid \in Captures, forget \in BOOLEAN : processorApply(cid, forget)
    /\ UNCHANGED componentVars

TryBalanceNow ==
    /\ \E captures \in SUBSET Captures, rebanlanceNow \in BOOLEAN :
          tryBalance(captures, rebanlanceNow)
    /\ UNCHANGED componentVars

\* the positions of a tick in which every capture with a task status has reported
AllReported == {p \in ReportedPositions : DOMAIN p = DOMAIN taskStatus}

HandleTableDDL ==
    /\ \E taskPositions \in AllReported, captures \in SUBSET Captures :
          handleDDL(taskPositions, captures, AllFine)
    /\ UNCHANGED componentVars

CalcResolvedTsAhead ==
    /\ \E taskPositions \in AllReported : calcResolvedTs(taskPositions, FALSE)
    /\ UNCHANGED componentVars

BalanceNext ==
    \/ ReceiveTableDDL
    \/ ProcessorApplyAndForget
    \/ TryBalanceNow
    \/ HandleTableDDL
    \/ CalcResolvedTsAhead

BalanceSpec == BalanceInit /\ [][BalanceNext]_vars

\* ------------------------------------------------------------------ a table recovered
\* The changefeed with its one table or with none, and DDL jobs that drop and
\* recover the table
RecoverInit ==
    (\E tids \in SUBSET {1} : InitTables(tids)) /\ NewProcessor /\ makeBuffer /\ NoFilterTxn

RecoverJobShapes ==
    {[Type |-> "DropTable", TableID |-> 1, TableInfoID |-> 0, Ineligible |-> FALSE],
     [Type |-> "RecoverTable", TableID |-> 1, TableInfoID |-> 1, Ineligible |-> FALSE]}

RecoverRawDDLs ==
    [OpType : {"Resolved"}, Ts : Ts, Skip : {FALSE}, Shape : {0}]
        \cup [OpType : {"Put"}, Ts : 1..MaxJobTs, Skip : {FALSE}, Shape : RecoverJobShapes]

ReceiveRecoverDDL ==
    /\ \E rawDDL \in RecoverRawDDLs : SortedOutput(rawDDL) /\ receiveDDL(rawDDL)
    /\ UNCHANGED componentVars

RecoverNext ==
    \/ ReceiveRecoverDDL
    \/ ProcessorApplyAndForget
    \/ TryBalanceNow
    \/ HandleTableDDL
    \/ CalcResolvedTsAhead

RecoverSpec == RecoverInit /\ [][RecoverNext]_vars

\* ------------------------------------------------------------------ the cyclic changefeed
\* A changefeed of cyclic replication with table 1 and its mark table 11, one
\* DDL job that truncates the mark table (its new id is 12) or the table (its
\* new id is 3), some capture live at every tick, no call outside the
\* changefeed failing, and the owner's calls and the processors going on
CyclicJobShapes ==
    {[Type |-> "TruncateTable", TableID |-> 11, TableInfoID |-> 12, Ineligible |-> FALSE],
     [Type |-> "TruncateTable", TableID |-> 1, TableInfoID |-> 3, Ineligible |-> FALSE]}

CyclicRawDDLs ==
    [OpType : {"Resolved"}, Ts : {MaxTs}, Skip : {FALSE}, Shape : {0}]
        \cup [OpType : {"Put"}, Ts : 1..MaxJobTs, Skip : {FALSE}, Shape : CyclicJobShapes]

CyclicInit == NewChangeFeed({1, 11}, TRUE) /\ NewProcessor /\ makeBuffer /\ NoFilterTxn

ReceiveCyclicDDL ==
    /\ \E rawDDL \in CyclicRawDDLs :
          /\ rawDDL.OpType = "Put" => numJobs < MaxTableJobs
          /\ SortedOutput(rawDDL)
          /\ receiveDDL(rawDDL)
    /\ UNCHANGED componentVars

LiveCaptures == (SUBSET Captures) \ {{}}

\* (no AtomicPutTaskStatus fails)
TryBalanceLive ==
    /\ \E captures \in LiveCaptures : tryBalance(captures, FALSE)
    /\ ret' = Nil
    /\ UNCHANGED componentVars

HandleCyclicDDL ==
    /\ \E taskPositions \in AllReported, captures \in LiveCaptures :
          handleDDL(taskPositions, captures, AllFine)
    /\ ret' = Nil
    /\ UNCHANGED componentVars

CyclicNext ==
    \/ ReceiveCyclicDDL
    \/ ProcessorApplyAndForget
    \/ TryBalanceLive
    \/ HandleCyclicDDL
    \/ CalcResolvedTsAhead

\* the owner ticks again and again, and every processor goes on applying
CyclicSpec ==
    /\ CyclicInit
    /\ [][CyclicNext]_vars
    /\ WF_vars(ProcessorApplyAndForget)
    /\ WF_vars(TryBalanceLive)
    /\ WF_vars(HandleCyclicDDL)
    /\ WF_vars(CalcResolvedTsAhead)

\* ------------------------------------------------------------------ the DDL handler
\* The ddlHandler on its own: the goroutine that calls receiveDDL for every
\* entry of the puller, jobs that entry.SkipJob skips included, and a caller of
\* PullDDL that keeps the resolved ts returned in ddlResolvedTs and appends the
\* jobs returned to ddlJobHistory.  Both run under h.mu, in any order.
HandlerRawDDLs ==
    [OpType : {"Resolved"}, Ts : Ts, Skip : {FALSE}, Shape : {0}]
        \cup [OpType : {"Put"}, Ts : 1..MaxTs, Skip : BOOLEAN,
              Shape : {s \in JobShapes : ~ShouldDiscardDDL(s.Type)}]

ReceiveAnyDDL ==
    /\ \E rawDDL \in HandlerRawDDLs : SortedOutput(rawDDL) /\ receiveDDL(rawDDL)
    /\ UNCHANGED componentVars

PullDDLCall ==
    /\ \E pulled \in {PullDDL} :
          /\ ddlResolvedTs' = pulled.resolvedTs
          /\ ddlJobHistory' = ddlJobHistory \o pulled.jobs
    /\ hDdlJobs' = <<>>
    /\ UNCHANGED <<status, ddlState, ddlExecutedTs, tableVars, hResolvedTS, pullerTs, numJobs,
                   sinkVars, taskStatus, appended, todoAddOperations, ret>>
    /\ UNCHANGED componentVars

HandlerNext ==
    \/ ReceiveAnyDDL
    \/ PullDDLCall

HandlerSpec == Init /\ [][HandlerNext]_vars

\* ------------------------------------------------------------------ applyJob
\* applyJob on its own: the changefeed with any of its two tables, the jobs
\* that change the table set (table 4 has the partitions 41 and 42), and the
\* balance that takes tables out of orphanTables and toCleanTables in between.
ApplyJobShapes ==
    {[Type |-> "CreateTable", TableID |-> 3, TableInfoID |-> 3, Ineligible |-> FALSE,
      Partitions |-> <<>>],
     [Type |-> "CreateTable", TableID |-> 4, TableInfoID |-> 4, Ineligible |-> FALSE,
      Partitions |-> <<41, 42>>],
     [Type |-> "RecoverTable", TableID |-> 1, TableInfoID |-> 1, Ineligible |-> FALSE,
      Partitions |-> <<>>],
     [Type |-> "DropTable", TableID |-> 1, TableInfoID |-> 0, Ineligible |-> FALSE,
      Partitions |-> <<>>],
     [Type |-> "DropTable", TableID |-> 4, TableInfoID |-> 0, Ineligible |-> FALSE,
      Partitions |-> <<>>],
     [Type |-> "TruncateTable", TableID |-> 2, TableInfoID |-> 5, Ineligible |-> FALSE,
      Partitions |-> <<>>],
     [Type |-> "DropSchema", TableID |-> 0, TableInfoID |-> 0, Ineligible |-> FALSE,
      Partitions |-> <<>>],
     [Type |-> "AddColumn", TableID |-> 2, TableInfoID |-> 2, Ineligible |-> TRUE,
      Partitions |-> <<>>]}

ApplyJobInit ==
    (\E tids \in SUBSET {1, 2} : InitTables(tids)) /\ NewProcessor /\ makeBuffer /\ NoFilterTxn

\* a job with a finishedTs above the one of the last job is applied
ApplyJob ==
    /\ \E shape \in ApplyJobShapes, ts \in 1..MaxJobTs, nameFound \in BOOLEAN :
          /\ Len(snapshotJobs) > 0 => ts > snapshotJobs[Len(snapshotJobs)].FinishedTS
          /\ \E job \in {[NewJob(Len(snapshotJobs) + 1, shape, ts)
                             EXCEPT !.Partitions = shape.Partitions]} :
             \E applied \in {applyJob(TableState(schemas, tables, partitions, orphanTables,
                                                 toCleanTables), job, nameFound)} :
                /\ schemas' = applied.tv.schemas
                /\ tables' = applied.tv.tables
                /\ partitions' = applied.tv.partitions
                /\ orphanTables' = applied.tv.orphanTables
                /\ toCleanTables' = applied.tv.toCleanTables
                /\ snapshotJobs' = Append(snapshotJobs, job)
                /\ ret' = IF applied.err THEN ErrOther ELSE Nil
    /\ UNCHANGED <<cfVars, handlerVars, sinkDDLs, sinkCheckpoints, appended,
                   todoAddOperations, taskStatus>>
    /\ UNCHANGED componentVars

\* the tick balances the tables over the one capture there is
BalanceOnOneCapture ==
    /\ tryBalance({"c1"}, FALSE)
    /\ UNCHANGED componentVars

\* the processor of that capture applies its operations and forgets them
ProcessorForgets ==
    /\ processorApply("c1", TRUE)
    /\ UNCHANGED componentVars

ApplyJobNext ==
    \/ ApplyJob
    \/ BalanceOnOneCapture
    \/ ProcessorForgets

ApplyJobSpec == ApplyJobInit /\ [][ApplyJobNext]_vars

\* ------------------------------------------------------------------ the processor
\* One processorImpl (cdc/owner_operator.go): the tables registered by
\* SetInputChan, the goroutine of newTxnChannel of each, the three workers, the
\* Forward goroutines of a round of globalResolvedWorker, Close, the consumer
\* that receives from ResolvedChan and sends what it executed on ExecutedChan,
\* and the owner that writes the global resolved ts.
CommitTs == 1..MaxCommitTs

\* a transaction of a table: its place on the input channel and its commit ts
RawTxn(n, ts) == [n |-> n, TS |-> ts]

\* putBackTxn = nil
NoTxn == RawTxn(0, 0)

NewProcessorDMLsEntry(tableID, t) == [Typ |-> "DMLS", TS |-> t.TS, table |-> tableID, n |-> t.n]

NewProcessorResolvedEntry(ts) == [Typ |-> "Resolved", TS |-> ts, table |-> 0, n |-> 0]

\* inputTxn holds the commit ts of all that was received from the input channel
newTxnChannel == [inputTxn |-> <<>>, outputTxn |-> <<>>, putBackTxn |-> NoTxn]

\* variant of PutBack: the transaction is not kept
PutBack_drop(p, t) == p

PutBack(p, t) == [p EXCEPT !.putBackTxn = t]

\* variant of Forward: every transaction is sent, whatever its commit ts
Forward_all(p, ts) ==
    IF p.putBackTxn # NoTxn
    THEN [p |-> [p EXCEPT !.putBackTxn = NoTxn], sent |-> <<p.putBackTxn>>, returned |-> FALSE]
    ELSE [p |-> [p EXCEPT !.outputTxn = Tail(@)], sent |-> <<Head(p.outputTxn)>>,
          returned |-> FALSE]

\* Forward up to its next send or to its return: the channel after it, what
\* it sends on entryC and whether it has returned.  With nothing put back it
\* takes the head of outputTxn (the caller sees to it that there is one).
Forward(p, ts) ==
    IF p.putBackTxn # NoTxn
    THEN IF p.putBackTxn.TS > ts
         THEN [p |-> p, sent |-> <<>>, returned |-> TRUE]
         ELSE [p |-> [p EXCEPT !.putBackTxn = NoTxn], sent |-> <<p.putBackTxn>>,
               returned |-> FALSE]
    ELSE LET t == Head(p.outputTxn)
             rest == [p EXCEPT !.outputTxn = Tail(@)]
         IN  IF t.TS > ts
             THEN [p |-> PutBack(rest, t), sent |-> <<>>, returned |-> TRUE]
             ELSE [p |-> rest, sent |-> <<t>>, returned |-> FALSE]

\* the minimum localResolvedWorker computes, Inf for math.MaxUint64
minResolvedTs(resolved) == MinOf(Range(resolved), Inf)

\* SetInputChan(tableID, inputTxn): newTxnChannel starts the goroutine that
\* receives from inputTxn, then the table is looked up; for a table that has a
\* channel the error is returned and the goroutine of the new channel is left
\* running
SetInputChan(tableID) ==
    /\ IF tableID \in DOMAIN tableInputChans
       THEN /\ rejectedChans' = IF tableID \in DOMAIN rejectedChans THEN rejectedChans
                                ELSE MapPut(rejectedChans, tableID, <<>>)
            /\ UNCHANGED tableInputChans
       ELSE /\ tableInputChans' = MapPut(tableInputChans, tableID, newTxnChannel)
            /\ UNCHANGED rejectedChans
    /\ UNCHANGED <<tableResolvedTS, resolvedEntries, executedEntries, forwards, workers,
                   lastGlobalResolvedTS, checkpointTS, tsRWriter, closed, consuming>>
    /\ UNCHANGED <<ownerVars, bufferVars, filterVars, envelopeVars>>

\* SetInputChan is called for a table that has no channel
SetNewInputChan == \E tableID \in ProcessorTables \ DOMAIN tableInputChans : SetInputChan(tableID)

\* SetInputChan is called for a table, with a channel or without
SetAnyInputChan == \E tableID \in ProcessorTables : SetInputChan(tableID)

\* the goroutine of a channel SetInputChan rejected receives a transaction of
\* commit ts ts from the input channel of the rejected call: handleResolvedTS
\* stores ts for the table, the send on the outputTxn of the rejected channel
\* has room
RejectedChannelCopy ==
    /\ \E tableID \in DOMAIN rejectedChans, ts \in CommitTs :
          \E received \in {rejectedChans[tableID]} :
             /\ Len(received) < MaxRejectedTxns
             /\ Len(received) > 0 => ts >= received[Len(received)]
             /\ tableResolvedTS' = MapPut(tableResolvedTS, tableID, ts)
             /\ rejectedChans' = [rejectedChans EXCEPT ![tableID] = Append(@, ts)]
    /\ UNCHANGED <<tableInputChans, resolvedEntries, executedEntries, forwards, workers,
                   lastGlobalResolvedTS, checkpointTS, tsRWriter, closed, consuming>>
    /\ UNCHANGED <<ownerVars, bufferVars, filterVars, envelopeVars>>

\* the goroutine of newTxnChannel receives a transaction of commit ts ts, no
\* smaller than the one before it: handleResolvedTS, then the send on outputTxn
TxnChannelCopy ==
    /\ \E tableID \in DOMAIN tableInputChans, ts \in CommitTs :
          \E p \in {tableInputChans[tableID]} :
             /\ Len(p.inputTxn) < MaxTxns
             /\ Len(p.inputTxn) > 0 => ts >= p.inputTxn[Len(p.inputTxn)]
             /\ Len(p.outputTxn) < chanSize
             /\ tableResolvedTS' = MapPut(tableResolvedTS, tableID, ts)
             /\ tableInputChans' =
                   [tableInputChans EXCEPT ![tableID] =
                       [p EXCEPT !.inputTxn = Append(@, ts),
                                 !.outputTxn = Append(@, RawTxn(Len(p.inputTxn) + 1, ts))]]
    /\ UNCHANGED <<resolvedEntries, executedEntries, forwards, workers,
                   lastGlobalResolvedTS, checkpointTS, tsRWriter, closed, consuming>>
    /\ UNCHANGED <<ownerVars, bufferVars, filterVars, envelopeVars>>
    /\ UNCHANGED rejectedChans

\* one turn of the select of localResolvedWorker
LocalResolvedWorker ==
    /\ workers.localResolvedWorker = "running"
    /\ \/ /\ closed
          /\ workers' = [workers EXCEPT !.localResolvedWorker = "exited"]
          /\ UNCHANGED tsRWriter
       \/ /\ IF minResolvedTs(tableResolvedTS) = Inf
             THEN UNCHANGED tsRWriter
             ELSE tsRWriter' = [tsRWriter EXCEPT !.resolvedTS = minResolvedTs(tableResolvedTS)]
          /\ UNCHANGED workers
    /\ UNCHANGED <<tableInputChans, tableResolvedTS, resolvedEntries, executedEntries, forwards,
                   lastGlobalResolvedTS, checkpointTS, closed, consuming>>
    /\ UNCHANGED <<ownerVars, bufferVars, filterVars, envelopeVars>>
    /\ UNCHANGED rejectedChans

\* executedEntries is closed by globalResolvedWorker when it exits
executedEntriesClosed == workers.globalResolvedWorker = "exited"

\* one turn of the select of checkpointWorker but the receive of an entry
CheckpointWorker ==
    /\ workers.checkpointWorker = "running"
    /\ \/ /\ executedEntriesClosed
          /\ workers' = [workers EXCEPT !.checkpointWorker = "exited"]
          /\ UNCHANGED tsRWriter
       \/ /\ tsRWriter' = [tsRWriter EXCEPT !.checkpointTS = checkpointTS]
          /\ UNCHANGED workers
    /\ UNCHANGED <<tableInputChans, tableResolvedTS, resolvedEntries, executedEntries, forwards,
                   lastGlobalResolvedTS, checkpointTS, closed, consuming>>
    /\ UNCHANGED <<ownerVars, bufferVars, filterVars, envelopeVars>>
    /\ UNCHANGED rejectedChans

\* the consumer sends the next entry it executed on ExecutedChan and
\* checkpointWorker receives it
ExecuteEntry ==
    /\ workers.checkpointWorker = "running"
    /\ ~executedEntriesClosed
    /\ executedEntries < Len(resolvedEntries)
    /\ executedEntries' = executedEntries + 1
    /\ \E e \in {resolvedEntries[executedEntries + 1]} :
          checkpointTS' = IF e.Typ = "Resolved" THEN e.TS ELSE checkpointTS
    /\ UNCHANGED <<tableInputChans, tableResolvedTS, resolvedEntries, forwards, workers,
                   lastGlobalResolvedTS, tsRWriter, closed, consuming>>
    /\ UNCHANGED <<ownerVars, bufferVars, filterVars, envelopeVars>>
    /\ UNCHANGED rejectedChans

\* the consumer stops receiving from ResolvedChan
ConsumerStops ==
    /\ consuming
    /\ consuming' = FALSE
    /\ UNCHANGED <<tableInputChans, tableResolvedTS, resolvedEntries, executedEntries, forwards,
                   workers, lastGlobalResolvedTS, checkpointTS, tsRWriter, closed>>
    /\ UNCHANGED <<ownerVars, bufferVars, filterVars, envelopeVars>>
    /\ UNCHANGED rejectedChans

\* the head of the loop of globalResolvedWorker, up to the start of the
\* Forward goroutines
GlobalResolvedWorkerRead ==
    /\ workers.globalResolvedWorker = "reading"
    /\ IF closed
       THEN /\ workers' = [workers EXCEPT !.globalResolvedWorker = "exited"]
            /\ UNCHANGED <<lastGlobalResolvedTS, forwards>>
       ELSE \/ /\ workers' = [workers EXCEPT !.globalResolvedWorker = "failed"]
               /\ UNCHANGED <<lastGlobalResolvedTS, forwards>>
            \/ \E globalResolvedTS \in {tsRWriter.globalResolvedTS} :
                  IF lastGlobalResolvedTS = globalResolvedTS
                  THEN UNCHANGED <<workers, lastGlobalResolvedTS, forwards>>
                  ELSE /\ lastGlobalResolvedTS' = globalResolvedTS
                       /\ forwards' = DOMAIN tableInputChans
                       /\ workers' = [workers EXCEPT !.globalResolvedWorker = "forwarding"]
    /\ UNCHANGED <<tableInputChans, tableResolvedTS, resolvedEntries, executedEntries,
                   checkpointTS, tsRWriter, closed, consuming>>
    /\ UNCHANGED <<ownerVars, bufferVars, filterVars, envelopeVars>>
    /\ UNCHANGED rejectedChans

\* the Forward goroutine of a table goes on to its next send or to its return
ForwardTable ==
    /\ \E tableID \in forwards :
          \E p \in {tableInputChans[tableID]} :
             /\ p.putBackTxn # NoTxn \/ Len(p.outputTxn) > 0
             /\ \E r \in {Forward(p, lastGlobalResolvedTS)} :
                   /\ r.sent # <<>> => consuming
                   /\ tableInputChans' = [tableInputChans EXCEPT ![tableID] = r.p]
                   /\ resolvedEntries' =
                         IF r.sent = <<>> THEN resolvedEntries
                         ELSE Append(resolvedEntries, NewProcessorDMLsEntry(tableID, r.sent[1]))
                   /\ forwards' = IF r.returned THEN forwards \ {tableID} ELSE forwards
    /\ UNCHANGED <<tableResolvedTS, executedEntries, workers, lastGlobalResolvedTS,
                   checkpointTS, tsRWriter, closed, consuming>>
    /\ UNCHANGED <<ownerVars, bufferVars, filterVars, envelopeVars>>
    /\ UNCHANGED rejectedChans

\* globalResolvedWorker after wg.Wait: the send of the Resolved entry
GlobalResolvedWorkerSend ==
    /\ workers.globalResolvedWorker = "forwarding"
    /\ forwards = {}
    /\ consuming
    /\ resolvedEntries' = Append(resolvedEntries, NewProcessorResolvedEntry(lastGlobalResolvedTS))
    /\ workers' = [workers EXCEPT !.globalResolvedWorker = "reading"]
    /\ UNCHANGED <<tableInputChans, tableResolvedTS, executedEntries, forwards,
                   lastGlobalResolvedTS, checkpointTS, tsRWriter, closed, consuming>>
    /\ UNCHANGED <<ownerVars, bufferVars, filterVars, envelopeVars>>
    /\ UNCHANGED rejectedChans

\* Close up to its wg.Wait
Close ==
    /\ ~closed
    /\ closed' = TRUE
    /\ UNCHANGED <<tableInputChans, tableResolvedTS, resolvedEntries, executedEntries, forwards,
                   workers, lastGlobalResolvedTS, checkpointTS, tsRWriter, consuming>>
    /\ UNCHANGED <<ownerVars, bufferVars, filterVars, envelopeVars>>
    /\ UNCHANGED rejectedChans

\* the three workers have returned: the wg.Wait of Close returns
CloseReturned ==
    /\ closed
    /\ workers.localResolvedWorker = "exited"
    /\ workers.checkpointWorker = "exited"
    /\ workers.globalResolvedWorker \in {"exited", "failed"}

\* the owner raises the global resolved ts, never above the resolved ts this
\* processor wrote
WriteGlobalResolvedTS ==
    /\ \E ts \in CommitTs :
          /\ ts > tsRWriter.globalResolvedTS
          /\ ts <= tsRWriter.resolvedTS
          /\ tsRWriter' = [tsRWriter EXCEPT !.globalResolvedTS = ts]
    /\ UNCHANGED <<tableInputChans, tableResolvedTS, resolvedEntries, executedEntries, forwards,
                   workers, lastGlobalResolvedTS, checkpointTS, closed, consuming>>
    /\ UNCHANGED <<ownerVars, bufferVars, filterVars, envelopeVars>>
    /\ UNCHANGED rejectedChans

ProcessorInit == InitTables({1}) /\ NewProcessor /\ makeBuffer /\ NoFilterTxn

\* the callers of SetInputChan call it once for a table
ProcessorNext ==
    \/ SetNewInputChan
    \/ TxnChannelCopy
    \/ LocalResolvedWorker
    \/ CheckpointWorker
    \/ ExecuteEntry
    \/ ConsumerStops
    \/ GlobalResolvedWorkerRead
    \/ ForwardTable
    \/ GlobalResolvedWorkerSend
    \/ Close
    \/ WriteGlobalResolvedTS

ProcessorSpec == ProcessorInit /\ [][ProcessorNext]_vars

\* The channels of the tables with callers of SetInputChan that call it for a
\* table again: the goroutines of the channels, registered and rejected.
RejectNext ==
    \/ SetAnyInputChan
    \/ TxnChannelCopy
    \/ RejectedChannelCopy

RejectSpec == ProcessorInit /\ [][RejectNext]_vars

\* The goroutines of the processor are scheduled: a worker that can take a
\* step takes one, and a select that has the closed channel among its ready
\* cases does not pass it over for ever.  Nothing is assumed of the pullers,
\* of the consumer, of the owner or of the callers of SetInputChan and Close.
LocalResolvedWorkerExits ==
    LocalResolvedWorker /\ workers'.localResolvedWorker = "exited"

CheckpointWorkerExits ==
    CheckpointWorker /\ workers'.checkpointWorker = "exited"

ProcessorFairSpec ==
    /\ ProcessorSpec
    /\ WF_vars(LocalResolvedWorkerExits)
    /\ WF_vars(CheckpointWorkerExits)
    /\ WF_vars(GlobalResolvedWorkerRead)
    /\ WF_vars(ForwardTable)
    /\ WF_vars(GlobalResolvedWorkerSend)

\* ------------------------------------------------------------------ the puller buffer
\* The buffer between a puller and its consumer (cdc/puller, used by
\* buffer_test.go): a bounded FIFO.  AddEntry and Get wait until the buffer has
\* room, or an event, or their context is done; with both ready either may
\* happen.
RegionFeedEvents == [kind : {"Val", "Resolved"}, ts : 1..MaxEventTs]

\* context.Canceled and context.DeadlineExceeded
ContextErrors == {"Canceled", "DeadlineExceeded"}

\* variant of AddEntry: with the buffer full the event is dropped
AddEntry_dropWhenFull(buf, ctx, entry) ==
    {[buf |-> IF Len(buf) < BufferSize THEN Append(buf, entry) ELSE buf, err |-> Nil]}

\* the ways AddEntry(ctx, entry) can return, none while it has to wait: the
\* buffer after it and its error
AddEntry(buf, ctx, entry) ==
    {[buf |-> Append(buf, entry), err |-> Nil] : x \in {y \in {1} : Len(buf) < BufferSize}}
        \cup {[buf |-> buf, err |-> ctx] : x \in {y \in {1} : ctx \in ContextErrors}}

\* variant of Get: the event returned stays in the buffer
Get_keepHead(buf, ctx) ==
    {[buf |-> buf, entry |-> Head(buf), err |-> Nil] : x \in {y \in {1} : Len(buf) > 0}}

\* the ways Get(ctx) can return, none while it has to wait
Get(buf, ctx) ==
    {[buf |-> Tail(buf), entry |-> Head(buf), err |-> Nil] : x \in {y \in {1} : Len(buf) > 0}}
        \cup {[buf |-> buf, entry |-> NoEvent, err |-> ctx] : x \in {y \in {1} : ctx \in ContextErrors}}

\* the producer calls AddEntry
AddEntryCall ==
    /\ addCall = NoEvent
    /\ Len(addResults) < MaxAdds
    /\ \E entry \in RegionFeedEvents : addCall' = entry
    /\ UNCHANGED <<bufferChan, addCtx, addResults, gotEntries>>
    /\ UNCHANGED <<ownerVars, processorVars, filterVars, envelopeVars>>

\* the AddEntry call under way returns
AddEntryReturn ==
    /\ addCall # NoEvent
    /\ \E r \in AddEntry(bufferChan, addCtx, addCall) :
          /\ bufferChan' = r.buf
          /\ addResults' = Append(addResults, [entry |-> addCall, err |-> r.err])
    /\ addCall' = NoEvent
    /\ UNCHANGED <<addCtx, gotEntries>>
    /\ UNCHANGED <<ownerVars, processorVars, filterVars, envelopeVars>>

\* a Get call of the consumer returns
GetEntry ==
    /\ \E r \in Get(bufferChan, addCtx) :
          /\ bufferChan' = r.buf
          /\ gotEntries' = IF r.err = Nil THEN Append(gotEntries, r.entry) ELSE gotEntries
    /\ UNCHANGED <<addCtx, addCall, addResults>>
    /\ UNCHANGED <<ownerVars, processorVars, filterVars, envelopeVars>>

\* the context is cancelled or its deadline passes
ContextDone ==
    /\ addCtx = "live"
    /\ \E err \in ContextErrors : addCtx' = err
    /\ UNCHANGED <<bufferChan, addCall, addResults, gotEntries>>
    /\ UNCHANGED <<ownerVars, processorVars, filterVars, envelopeVars>>

BufferInit == InitTables({1}) /\ NewProcessor /\ makeBuffer /\ NoFilterTxn

BufferNext ==
    \/ AddEntryCall
    \/ AddEntryReturn
    \/ GetEntry
    \/ ContextDone

BufferSpec == BufferInit /\ [][BufferNext]_vars

\* ------------------------------------------------------------------ properties
HasHead == Len(ddlJobHistory) > 0

HeadFinishedTS == ddlJobHistory[1].FinishedTS

\* the inputs of a handleDDL call
HandleDDLInputs == ReportedPositions \X (SUBSET Captures) \X Externals

StrictlyIncreasing(jobs) ==
    \A i, j \in 1..Len(jobs) : i < j => jobs[i].FinishedTS < jobs[j].FinishedTS

TimesIn(jobs, job) == Cardinality({i \in 1..Len(jobs) : jobs[i].ID = job.ID})

\* C1: in every reachable state the checkpoint ts of the changefeed status is
\* not above its resolved ts.
C1_CheckpointNotAboveResolved == status.CheckpointTs <= status.ResolvedTs

\* a DDL job holds the resolved ts back and the checkpoint has caught up with it
C1_Witness ==
    /\ ddlState = ChangeFeedWaitToExecDDL
    /\ status.CheckpointTs > StartTs
    /\ status.CheckpointTs = status.ResolvedTs

\* C2: no step lowers status.ResolvedTs or status.CheckpointTs, whatever the
\* positions, pending operations, orphan and toClean tables of the tick are; a
\* value that changes changes to a larger one.
C2_StatusNeverDecreases ==
    [][/\ status'.ResolvedTs >= status.ResolvedTs
       /\ status'.CheckpointTs >= status.CheckpointTs]_vars

\* both fields have been raised, the checkpoint more than once
C2_Witness ==
    /\ status.CheckpointTs >= StartTs + 2
    /\ status.ResolvedTs > status.CheckpointTs

\* C3: in every reachable state startTs <= status.CheckpointTs and
\* status.ResolvedTs <= targetTs.
C3_WithinStartAndTarget ==
    /\ StartTs <= status.CheckpointTs
    /\ status.ResolvedTs <= TargetTs

\* the resolved ts stands at targetTs while the DDL puller is past it
C3_Witness ==
    /\ status.ResolvedTs = TargetTs
    /\ ddlResolvedTs > TargetTs

\* C4: a step taken while ddlState is WaitToExecDDL or ExecDDL, with J the head
\* of ddlJobHistory, leaves status.CheckpointTs at most J.finishedTs.
C4_CheckpointHeldAtDDL ==
    [][(ddlState \in {ChangeFeedWaitToExecDDL, ChangeFeedExecDDL} /\ HasHead)
          => status'.CheckpointTs <= HeadFinishedTS]_vars

\* a job waits with the checkpoint at its finishedTs, the DDL puller is past it
C4_Witness ==
    /\ ddlState = ChangeFeedWaitToExecDDL
    /\ HasHead
    /\ status.CheckpointTs = HeadFinishedTS
    /\ ddlResolvedTs > HeadFinishedTS

\* C5: the jobs applied to the schema snapshot (schema.HandleDDL), in the order
\* of the calls, have strictly increasing finishedTs, and so have the jobs
\* passed to sink.EmitDDLEvent.
C5_ExecutedInFinishedTsOrder ==
    /\ StrictlyIncreasing(snapshotJobs)
    /\ StrictlyIncreasing(sinkDDLs)

\* C6: every job pullDDLJob has appended to ddlJobHistory that is not for an
\* ineligible table has been passed to sink.EmitDDLEvent at most once, and if it
\* has not been passed yet it is still in ddlJobHistory.
C6_EmittedExactlyOnce ==
    \A job \in appended :
        ~job.Ineligible =>
            /\ TimesIn(sinkDDLs, job) <= 1
            /\ TimesIn(sinkDDLs, job) = 0 => TimesIn(ddlJobHistory, job) = 1

\* C7: a handleDDL call that changes anything but the error returned is made with status.CheckpointTs
\* equal to the head job's finishedTs and with a position reported by every
\* capture that has a task status.
C7_HandleDDLOnlyWhenAllReported ==
    [][ddlState = ChangeFeedWaitToExecDDL =>
         \A in \in HandleDDLInputs :
            (handleDDL(in[1], in[2], in[3]) /\ stateVars' # stateVars)
               => /\ HasHead
                  /\ status.CheckpointTs = HeadFinishedTS
                  /\ DOMAIN taskStatus \subseteq DOMAIN in[1]]_vars

\* the calcResolvedTs calls that do not return early, and what they find and
\* decide at the head job of the history
TickPositions ==
    {taskPositions \in TaskPositions :
        /\ canCalcResolvedTs(ddlState)
        /\ Cardinality(DOMAIN taskPositions) >= Cardinality(DOMAIN taskStatus)
        /\ Len(beforeBarrier(taskPositions).history) > 0}

TickHeadFinishedTS(taskPositions) == beforeBarrier(taskPositions).history[1].FinishedTS

TickBarrier(taskPositions) ==
    ddlBarrier(beforeBarrier(taskPositions).history, beforeBarrier(taskPositions).minResolvedTs,
               beforeBarrier(taskPositions).minCheckpointTs, ddlState)

\* C8 as stated: a calcResolvedTs call in SyncDML that finds the head job's
\* finishedTs <= minResolvedTs clamps minResolvedTs to it and sets ddlState to
\* WaitToExecDDL.
C8_WaitsWhenReached ==
    ddlState = ChangeFeedSyncDML =>
        \A taskPositions \in TickPositions :
            TickHeadFinishedTS(taskPositions) <= beforeBarrier(taskPositions).minResolvedTs
               => /\ TickBarrier(taskPositions).state = ChangeFeedWaitToExecDDL
                  /\ TickBarrier(taskPositions).minResolvedTs = TickHeadFinishedTS(taskPositions)

\* C8, amended: a calcResolvedTs call in SyncDML that finds the head job's
\* finishedTs < minResolvedTs clamps minResolvedTs to it and sets ddlState to
\* WaitToExecDDL; one that finds finishedTs = minResolvedTs leaves ddlState at
\* SyncDML and minResolvedTs as it is.
C8_WaitsWhenPassed ==
    ddlState = ChangeFeedSyncDML =>
        \A taskPositions \in TickPositions :
            /\ TickHeadFinishedTS(taskPositions) < beforeBarrier(taskPositions).minResolvedTs
                  => /\ TickBarrier(taskPositions).state = ChangeFeedWaitToExecDDL
                     /\ TickBarrier(taskPositions).minResolvedTs = TickHeadFinishedTS(taskPositions)
            /\ TickHeadFinishedTS(taskPositions) = beforeBarrier(taskPositions).minResolvedTs
                  => /\ TickBarrier(taskPositions).state = ChangeFeedSyncDML
                     /\ TickBarrier(taskPositions).minResolvedTs = TickHeadFinishedTS(taskPositions)

\* in SyncDML one call finds a head job minResolvedTs has passed, another one
\* finds a head job minResolvedTs has just reached
C8_Witness ==
    /\ ddlState = ChangeFeedSyncDML
    /\ \E taskPositions \in TickPositions :
          TickHeadFinishedTS(taskPositions) < beforeBarrier(taskPositions).minResolvedTs
    /\ \E taskPositions \in TickPositions :
          TickHeadFinishedTS(taskPositions) = beforeBarrier(taskPositions).minResolvedTs

\* C9: a handleDDL call in which sink.EmitDDLEvent succeeds removes the head
\* job from ddlJobHistory, sets ddlExecutedTs to its finishedTs and ddlState to
\* SyncDML.
C9_EmitSuccessFinishesJob ==
    [][(ddlState = ChangeFeedWaitToExecDDL /\ sinkDDLs' # sinkDDLs) =>
         \A in \in {i \in HandleDDLInputs : ~i[3].sinkErr} :
            handleDDL(in[1], in[2], in[3])
               => /\ ddlJobHistory' = Tail(ddlJobHistory)
                  /\ ddlExecutedTs' = HeadFinishedTS
                  /\ ddlState' = ChangeFeedSyncDML]_vars

\* the last job emitted has left the history and DML is synced again
C9_Witness ==
    /\ Len(sinkDDLs) > 0
    /\ ddlState = ChangeFeedSyncDML
    /\ ddlExecutedTs = sinkDDLs[Len(sinkDDLs)].FinishedTS
    /\ TimesIn(ddlJobHistory, sinkDDLs[Len(sinkDDLs)]) = 0

\* C10: a handleDDL call in which sink.EmitDDLEvent fails ends in
\* DDLExecuteFailed and returns ErrExecDDLFailed; no step taken in DDLExecuteFailed changes status, ddlState
\* or ddlJobHistory or passes anything to the sink.
C10_ExecuteFailedIsAbsorbing ==
    [][/\ (ddlState = ChangeFeedWaitToExecDDL /\ sinkDDLs' # sinkDDLs) =>
            \A in \in {i \in HandleDDLInputs : i[3].sinkErr} :
               handleDDL(in[1], in[2], in[3])
                  => ddlState' = ChangeFeedDDLExecuteFailed /\ ret' = ErrExecDDLFailed
       /\ ddlState = ChangeFeedDDLExecuteFailed =>
            UNCHANGED <<status, ddlState, ddlJobHistory, sinkVars>>]_vars

\* the emission has failed: the job stays at the head of the history, and the
\* status stays behind the DDL puller
C10_Witness ==
    /\ ddlState = ChangeFeedDDLExecuteFailed
    /\ Len(sinkDDLs) > 0
    /\ HasHead
    /\ sinkDDLs[Len(sinkDDLs)] = ddlJobHistory[1]
    /\ status.ResolvedTs < hResolvedTS

\* C11: the value passed to sink.EmitCheckpointTs changes only in a step that
\* strictly raises status.CheckpointTs, that does not end in WaitToExecDDL, and
\* the value passed is the new checkpoint, above every value passed before.
C11_EmitOnlyRaisedCheckpoint ==
    [][sinkCheckpoints' # sinkCheckpoints =>
          /\ sinkCheckpoints <= status.CheckpointTs
          /\ status'.CheckpointTs > status.CheckpointTs
          /\ ddlState' # ChangeFeedWaitToExecDDL
          /\ sinkCheckpoints' = status'.CheckpointTs
          /\ sinkCheckpoints' > sinkCheckpoints]_vars

\* a checkpoint was emitted, then a later tick raised the checkpoint while a
\* DDL waits and emitted nothing
C11_Witness ==
    /\ sinkCheckpoints > StartTs
    /\ ddlState = ChangeFeedWaitToExecDDL
    /\ status.CheckpointTs > sinkCheckpoints

\* the table ids the captures list
ListedBy(infos, cid) == DOMAIN infos[cid].Tables

Listed(infos) == UNION {ListedBy(infos, cid) : cid \in DOMAIN infos}

\* C12: no table id is listed in the Tables of the task statuses of two
\* different captures.
C12_NoTableOnTwoCaptures ==
    \A a, b \in DOMAIN taskStatus :
        a # b => ListedBy(taskStatus, a) \cap ListedBy(taskStatus, b) = {}

\* no table waits to be dispatched, cleaned or added by a rebalance, and the
\* processors have applied every operation
Settled ==
    /\ DOMAIN orphanTables = {}
    /\ DOMAIN toCleanTables = {}
    /\ DOMAIN todoAddOperations = {}
    /\ \A cid \in DOMAIN taskStatus : ~SomeOperationsUnapplied(taskStatus[cid])

\* C13: the union of the table ids in all captures' Tables equals the table
\* set implied by the DDL jobs applied so far minus the ids in toCleanTables
\* (required here only of the states in which nothing waits, where no table is
\* on its way between the two sets).
C13_ListedEqualsTableSet ==
    Settled => Listed(taskStatus) = tables \ DOMAIN toCleanTables

\* C14 as stated: in every task status a table id is in Tables if and only if
\* its Add operation has finished or a Delete operation for it is pending.
C14_ListedIffAddDoneOrDeletePending ==
    \A cid \in DOMAIN taskStatus :
        \A t \in DOMAIN taskStatus[cid].Tables \cup DOMAIN taskStatus[cid].Operation :
            t \in DOMAIN taskStatus[cid].Tables <=>
                /\ t \in DOMAIN taskStatus[cid].Operation
                /\ \/ ~taskStatus[cid].Operation[t].Delete /\ taskStatus[cid].Operation[t].Done
                   \/ taskStatus[cid].Operation[t].Delete /\ ~taskStatus[cid].Operation[t].Done

\* C14, amended: in every task status a table id with an Add operation in the
\* Operation map, applied or not, is in Tables, and a table id with a Delete
\* operation in the Operation map, applied or not, is not in Tables.
C14_ListedIffOperationIsAdd ==
    \A cid \in DOMAIN taskStatus :
        \A t \in DOMAIN taskStatus[cid].Operation :
            t \in DOMAIN taskStatus[cid].Tables <=> ~taskStatus[cid].Operation[t].Delete

\* a status just written holds a pending Delete for a table it no longer lists,
\* and a status holds an Add for a table it lists
C14_Witness ==
    /\ \E cid \in DOMAIN taskStatus : \E t \in DOMAIN taskStatus[cid].Operation :
          /\ taskStatus[cid].Operation[t].Delete
          /\ ~taskStatus[cid].Operation[t].Done
          /\ t \notin DOMAIN taskStatus[cid].Tables
    /\ \E cid \in DOMAIN taskStatus : \E t \in DOMAIN taskStatus[cid].Operation :
          /\ ~taskStatus[cid].Operation[t].Delete
          /\ t \in DOMAIN taskStatus[cid].Tables

\* the operations the owner can append
Operations == {TableOperation(delete, ts) : delete \in BOOLEAN, ts \in Ts}

\* C15: appendTaskOperation on an id that has an operation of the opposite
\* kind removes that entry and records nothing for the id; on an id that has an
\* operation of the same kind it leaves the map as it is; every other entry
\* stays, so that the map never holds an Add and a Delete for one id.
C15_SecondWriteCancelsFirst ==
    \A cid \in DOMAIN taskStatus : \A tableID \in DOMAIN taskStatus[cid].Operation :
        \A operation \in Operations :
            LET before == taskStatus[cid].Operation
                after == appendTaskOperation(before, tableID, operation)
            IN  /\ before[tableID].Delete # operation.Delete =>
                      /\ tableID \notin DOMAIN after
                      /\ DOMAIN after = DOMAIN before \ {tableID}
                /\ before[tableID].Delete = operation.Delete => after = before
                /\ \A t \in DOMAIN after : after[t] = before[t]

\* a capture lists a table to clean and still holds the Add it applied for it:
\* the Delete that balanceOrphanTables appends cancels that entry
C15_Witness ==
    /\ \A cid \in DOMAIN taskStatus : ~SomeOperationsUnapplied(taskStatus[cid])
    /\ \E cid \in DOMAIN taskStatus : \E id \in DOMAIN toCleanTables :
          /\ id \in DOMAIN taskStatus[cid].Tables
          /\ id \in DOMAIN taskStatus[cid].Operation
          /\ ~taskStatus[cid].Operation[id].Delete
          /\ id \notin DOMAIN appendTaskOperation(taskStatus[cid].Operation, id,
                                                   TableOperation(TRUE, toCleanTables[id]))

SomeCaptureBusy ==
    \E cid \in DOMAIN taskStatus : \E t \in DOMAIN taskStatus[cid].Operation :
        ~taskStatus[cid].Operation[t].Done

\* C16: while a capture has an unapplied operation, balanceOrphanTables and
\* rebanlanceTables have one outcome each, whatever the live captures and
\* whether a rebalance is due: no error and no change; and a tryBalance step
\* changes none of taskStatus, orphanTables, toCleanTables, todoAddOperations.
C16_BusyCaptureSkipsBalance ==
    [][SomeCaptureBusy =>
          \A captures \in SUBSET Captures :
             /\ balanceOrphanTables(captures, taskStatus, orphanTables, toCleanTables)
                   = {[taskStatus |-> taskStatus, orphanTables |-> orphanTables,
                       toCleanTables |-> toCleanTables, err |-> FALSE]}
             /\ \A rebanlanceNow \in BOOLEAN :
                   /\ rebanlanceTables(captures, taskStatus, todoAddOperations,
                                       rebanlanceNow, status.CheckpointTs)
                         = {[taskStatus |-> taskStatus,
                             todoAddOperations |-> todoAddOperations, err |-> FALSE]}
                   /\ tryBalance(captures, rebanlanceNow) =>
                         /\ UNCHANGED <<taskStatus, orphanTables, toCleanTables,
                                        todoAddOperations>>
                         /\ ret' = Nil]_vars

\* a tick was skipped: a Delete of a rebalance is not applied yet, its Add
\* waits in todoAddOperations, and a table waits to be dispatched or cleaned
C16_Witness ==
    /\ SomeCaptureBusy
    /\ DOMAIN todoAddOperations # {}
    /\ DOMAIN orphanTables \cup DOMAIN toCleanTables # {}
    /\ ret = Nil

\* the outcomes of a balanceOrphanTables that is not skipped and succeeds
BalancedFrom(captures) ==
    IF skipBalance(captures, taskStatus) THEN {}
    ELSE {o \in balanceOrphanTables(captures, taskStatus, orphanTables, toCleanTables) :
             ~o.err}

\* C17: after a successful balanceOrphanTables every id of toCleanTables that a
\* capture listed is gone from toCleanTables, and a capture that listed it has
\* a status without id in Tables and with a Delete operation for id whose
\* BoundaryTs is the targetTs of toCleanTables.
C17_CleanedTableGetsDelete ==
    \A captures \in SUBSET Captures : \A o \in BalancedFrom(captures) :
        \A id \in DOMAIN toCleanTables :
            findTaskStatusWithTable(taskStatus, id) # {} =>
                /\ id \notin DOMAIN o.toCleanTables
                /\ \E cid \in findTaskStatusWithTable(taskStatus, id) :
                      /\ id \notin DOMAIN o.taskStatus[cid].Tables
                      /\ id \in DOMAIN o.taskStatus[cid].Operation
                      /\ o.taskStatus[cid].Operation[id].Delete
                      /\ o.taskStatus[cid].Operation[id].BoundaryTs = toCleanTables[id]

\* C18: after a successful balanceOrphanTables an orphan either is still in
\* orphanTables with its startTs, or has left it and a live capture has a
\* status with Tables[id] = startTs and an Add operation for id with
\* BoundaryTs = startTs.
C18_DispatchedTableGetsAdd ==
    \A captures \in SUBSET Captures : \A o \in BalancedFrom(captures) :
        \A id \in DOMAIN orphanTables :
            IF id \in DOMAIN o.orphanTables
            THEN o.orphanTables[id] = orphanTables[id]
            ELSE \E cid \in captures \cap DOMAIN o.taskStatus :
                    /\ id \in DOMAIN o.taskStatus[cid].Tables
                    /\ o.taskStatus[cid].Tables[id] = orphanTables[id]
                    /\ id \in DOMAIN o.taskStatus[cid].Operation
                    /\ ~o.taskStatus[cid].Operation[id].Delete
                    /\ o.taskStatus[cid].Operation[id].BoundaryTs = orphanTables[id]

\* the step is one of a processor
ProcessorStep == \E cid \in Captures, forget \in BOOLEAN : processorApply(cid, forget)

\* C19: a call of the owner that returns an error has written no capture's
\* task status.
C19_FailedTickWritesNothing ==
    [][(ret' # Nil /\ ~ProcessorStep) => taskStatus' = taskStatus]_vars

\* what a tick computes
ChangeFeedState ==
    [status |-> status, ddlState |-> ddlState, ddlResolvedTs |-> ddlResolvedTs,
     ddlJobHistory |-> ddlJobHistory]

\* the changefeed state a calcResolvedTs call with these positions leaves
AfterTick(taskPositions) ==
    IF \/ ~canCalcResolvedTs(ddlState)
       \/ Cardinality(DOMAIN taskPositions) < Cardinality(DOMAIN taskStatus)
    THEN ChangeFeedState
    ELSE [status |-> [ResolvedTs |-> advanceTs(status.ResolvedTs,
                                               TickBarrier(taskPositions).minResolvedTs),
                      CheckpointTs |-> advanceTs(status.CheckpointTs,
                                                 TickBarrier(taskPositions).minCheckpointTs)],
          ddlState |-> TickBarrier(taskPositions).state,
          ddlResolvedTs |-> beforeBarrier(taskPositions).resolvedTs,
          ddlJobHistory |-> beforeBarrier(taskPositions).history]

\* C20: a second calcResolvedTs call on the task positions of the first leaves
\* the changefeed state the first call left, also with no position reported.
C20_TickIsIdempotent ==
    [][\A taskPositions \in ReportedPositions :
          (DOMAIN taskPositions = DOMAIN taskStatus /\ calcResolvedTs(taskPositions, FALSE))
             => AfterTick(taskPositions)' = ChangeFeedState']_vars

\* the (capture, table) pairs of the Add operations that wait
TodoAdds ==
    UNION {{<<cid, id>> : id \in DOMAIN todoAddOperations[cid]} : cid \in DOMAIN todoAddOperations}

\* C21: the step that stores Add operations in todoAddOperations does not
\* list their tables on the targets; the step that writes them starts with no
\* unapplied operation on any capture, and after it the moved table is listed
\* by its target and by no other capture.
C21_MoveIsTwoPhase ==
    [][/\ (TodoAdds = {} /\ TodoAdds' # {}) =>
             \A m \in TodoAdds' :
                m[1] \in DOMAIN taskStatus' => m[2] \notin ListedBy(taskStatus', m[1])
       /\ (TodoAdds # {} /\ TodoAdds' = {}) =>
             /\ ~SomeCaptureBusy
             /\ \A m \in TodoAdds :
                   /\ m[2] \in ListedBy(taskStatus', m[1])
                   /\ \A cid \in DOMAIN taskStatus' \ {m[1]} :
                         m[2] \notin ListedBy(taskStatus', cid)]_vars

\* ------------------------------------------------------------------ the transaction filter
\* ChangeFeedDetail.FilterTxn (cdc/model/changefeed.go).  A name is the
\* sequence of its characters.
ToUpperChar(c) ==
    CASE c = "a" -> "A" [] c = "c" -> "C" [] c = "e" -> "E" [] c = "f" -> "F"
      [] c = "h" -> "H" [] c = "i" -> "I" [] c = "l" -> "L" [] c = "m" -> "M"
      [] c = "n" -> "N" [] c = "o" -> "O" [] c = "p" -> "P" [] c = "q" -> "Q"
      [] c = "r" -> "R" [] c = "s" -> "S" [] c = "t" -> "T" [] c = "y" -> "Y"
      [] OTHER -> c

\* strings.ToUpper
ToUpper(name) == [i \in 1..Len(name) |-> ToUpperChar(name[i])]

INFORMATION_SCHEMA ==
    <<"I", "N", "F", "O", "R", "M", "A", "T", "I", "O", "N", "_", "S", "C", "H", "E", "M", "A">>

PERFORMANCE_SCHEMA ==
    <<"P", "E", "R", "F", "O", "R", "M", "A", "N", "C", "E", "_", "S", "C", "H", "E", "M", "A">>

MYSQL == <<"M", "Y", "S", "Q", "L">>

METRIC_SCHEMA == <<"M", "E", "T", "R", "I", "C", "_", "S", "C", "H", "E", "M", "A">>

\* variant of IsSysSchema: the name is compared as it is written
IsSysSchema_asWritten(db) ==
    db \in {INFORMATION_SCHEMA, PERFORMANCE_SCHEMA, MYSQL, METRIC_SCHEMA}

IsSysSchema(db) ==
    ToUpper(db) \in {INFORMATION_SCHEMA, PERFORMANCE_SCHEMA, MYSQL, METRIC_SCHEMA}

\* filter.Filter.ApplyOn for one table: the table is left unless a rule rejects it
ApplyOn(rules, tbls) ==
    LET Left(tbl) == tbl \notin rules
    IN  SelectSeq(tbls, Left)

ShouldIgnoreDBTable(rules, db, tbl) ==
    IF IsSysSchema(db)
    THEN TRUE
    ELSE Len(ApplyOn(rules, <<[Schema |-> db, Name |-> tbl]>>)) = 0

\* the loop of FilterTxn over t.DMLs
RECURSIVE filteredDMLs(_, _)
filteredDMLs(rules, dmls) ==
    IF dmls = <<>> THEN <<>>
    ELSE IF ~ShouldIgnoreDBTable(rules, Head(dmls).Database, Head(dmls).Table)
         THEN <<Head(dmls)>> \o filteredDMLs(rules, Tail(dmls))
         ELSE filteredDMLs(rules, Tail(dmls))

\* Txn.IsDDL
IsDDL(t) == t.DDL # <<>>

\* the transaction as FilterTxn(t) leaves it
FilterTxnOf(rules, t) ==
    IF IsDDL(t)
    THEN IF ShouldIgnoreDBTable(rules, t.DDL[1].Database, t.DDL[1].Table)
         THEN [t EXCEPT !.DDL = <<>>]
         ELSE t
    ELSE [t EXCEPT !.DMLs = filteredDMLs(rules, t.DMLs)]

\* the schema names of the transactions given to the filter
SchemaNames ==
    {<<"I", "N", "F", "O", "R", "M", "A", "T", "I", "O", "n", "_", "S", "C", "H", "E", "m", "A">>,
     <<"p", "e", "r", "f", "o", "r", "m", "a", "n", "c", "e", "_", "s", "c", "h", "e", "m", "a">>,
     <<"m", "y", "s", "q", "l">>,
     <<"M", "y", "S", "q", "L">>,
     <<"M", "e", "t", "r", "i", "c", "_", "S", "c", "h", "e", "m", "a">>,
     <<"t", "e", "s", "t">>,
     <<"t", "e", "s", "t", "_", "m", "y", "s", "q", "l">>}

TableNames == {<<"t">>, <<"u">>}

FilterTables == [Database : SchemaNames, Table : TableNames]

\* the filter rules: none, or one that rejects table test.t
FilterRuleSets == {{}, {[Schema |-> <<"t", "e", "s", "t">>, Name |-> <<"t">>]}}

\* a transaction of a DDL, or one of up to MaxDMLs DMLs
FilterTxns ==
    [DDL : {<<d>> : d \in FilterTables}, DMLs : {<<>>}, Ts : 1..MaxTxnTs]
        \cup [DDL : {<<>>}, DMLs : UNION {[1..n -> FilterTables] : n \in 0..MaxDMLs},
              Ts : 1..MaxTxnTs]

\* a changefeed is given its filter rules and a transaction to filter
GetTxn ==
    /\ filterRules' \in FilterRuleSets
    /\ txnIn' \in FilterTxns
    /\ txnOut' = EmptyTxn
    /\ UNCHANGED <<ownerVars, processorVars, bufferVars, envelopeVars>>

FilterTxn ==
    /\ txnIn # EmptyTxn
    /\ txnOut' = FilterTxnOf(filterRules, txnIn)
    /\ UNCHANGED <<filterRules, txnIn>>
    /\ UNCHANGED <<ownerVars, processorVars, bufferVars, envelopeVars>>

FilterInit ==
    /\ InitTables({1}) /\ NewProcessor /\ makeBuffer /\ NoEnvelope
    /\ filterRules \in FilterRuleSets
    /\ txnIn \in FilterTxns
    /\ txnOut = EmptyTxn

FilterNext ==
    \/ GetTxn
    \/ FilterTxn

FilterSpec == FilterInit /\ [][FilterNext]_vars

\* ------------------------------------------------------------------ the message envelope
\* The writers and the reader of the sink messages (package sink in
\* cdc/changefeed.go).  A byte is a number below 256, a string the sequence of
\* its bytes (all shorter than 128 bytes, so that a uvarint is one byte), a
\* JSON text a string.
\* the bytes of 0xBAAAD700
MagicIndex == <<186, 170, 215, 0>>

Version == 1

ResolveTsType == 1

TxnType == 2

DmlOp == 2

DdlOp == 3

\* Encbuf.PutBE32, PutBE32int, PutBE64, PutBE64int64: n in w bytes, the
\* highest first
RECURSIVE PutBE(_, _)
PutBE(n, w) == IF w = 0 THEN <<>> ELSE PutBE(n \div 256, w - 1) \o <<n % 256>>

\* Encbuf.PutUvarintStr
PutUvarintStr(str) == <<Len(str)>> \o str

\* the checksum of some bytes, in place of CRC32C: each byte weighs by its place
RECURSIVE Sum32(_, _)
Sum32(bytes, k) ==
    IF bytes = <<>> THEN 0 ELSE (k * Head(bytes) + Sum32(Tail(bytes), k + 1)) % 65536

\* Encbuf.PutHash: the checksum of the buffer is appended to it
PutHash(bytes) == bytes \o PutBE(Sum32(bytes, 1), 4)

\* json.Marshal(Datum{Value: value.GetValue()}): a number as its digit, a
\* string between quotes; the text does not tell an int64 from a float64
MarshalDatum(datum) ==
    IF datum.kind = "string" THEN <<34>> \o datum.str \o <<34>> ELSE <<48 + datum.n>>

\* json.Unmarshal into Datum and Datum.SetInterface: a JSON number is a float64
UnmarshalDatum(text) ==
    IF Len(text) >= 2 /\ text[1] = 34 /\ text[Len(text)] = 34
    THEN [err |-> Nil, datum |-> [kind |-> "string", n |-> 0, str |-> SubSeq(text, 2, Len(text) - 1)]]
    ELSE IF Len(text) = 1 /\ text[1] \in 48..57
         THEN [err |-> Nil, datum |-> [kind |-> "float64", n |-> text[1] - 48, str |-> <<>>]]
         ELSE [err |-> ErrOther, datum |-> [kind |-> "null", n |-> 0, str |-> <<>>]]

\* json.Unmarshal of the text of a Job or of a ColumnInfo: an object
UnmarshalObject(text) == IF Len(text) >= 2 /\ text[1] = 123 THEN Nil ELSE ErrOther

writeMeta(msgType, cdcId) == MagicIndex \o <<Version, msgType>> \o PutUvarintStr(cdcId)

\* resolveTsWriter.Write
WriteResolveTs(cdcId, ts) ==
    [err |-> Nil, meta |-> writeMeta(ResolveTsType, cdcId), buf1 |-> PutBE(ts, 8),
     buf2 |-> <<>>, hash |-> <<>>]

\* the values of a DML as writeDML writes them (at most one here, so that the
\* order of the map does not show)
RECURSIVE writeValues(_)
writeValues(values) ==
    IF DOMAIN values = {} THEN <<>>
    ELSE LET key == CHOOSE k \in DOMAIN values : TRUE
         IN  PutUvarintStr(key) \o PutUvarintStr(MarshalDatum(values[key]))
                 \o writeValues([k \in DOMAIN values \ {key} |-> values[k]])

RECURSIVE writeColumns(_)
writeColumns(columns) ==
    IF columns = <<>> THEN <<>>
    ELSE PutUvarintStr(Head(columns)) \o writeColumns(Tail(columns))

\* the loop of writeDML over the DMLs: buf2, or the error of the infoGetter.
\* infos gives the JSON texts of the writable columns of the tables it knows.
RECURSIVE writeDMLs(_, _)
writeDMLs(dmls, infos) ==
    IF dmls = <<>> THEN [err |-> Nil, buf2 |-> <<>>]
    ELSE LET dml == Head(dmls)
             key == <<dml.Database, dml.Table>>
             one == PutUvarintStr(dml.Database) \o PutUvarintStr(dml.Table)
                        \o PutBE(dml.Tp, 4)
                        \o PutBE(Cardinality(DOMAIN dml.Values), 4) \o writeValues(dml.Values)
         IN  IF key \notin DOMAIN infos
             THEN [err |-> ErrOther, buf2 |-> <<>>]
             ELSE LET rest == writeDMLs(Tail(dmls), infos)
                  IN  [err |-> rest.err,
                       buf2 |-> one \o PutBE(Len(infos[key]), 4) \o writeColumns(infos[key])
                                    \o rest.buf2]

\* txnWriter.writeDML
writeDML(meta, ts, dmls, infos) ==
    LET body == writeDMLs(dmls, infos)
    IN  [err |-> body.err, meta |-> meta,
         buf1 |-> PutBE(ts, 8) \o <<DmlOp>> \o PutBE(Len(dmls), 4) \o PutBE(Len(body.buf2), 4),
         buf2 |-> body.buf2, hash |-> PutBE(Sum32(body.buf2, 1), 4)]

\* txnWriter.Write: the parts of the message in the order they are written
WriteTxn(cdcId, txn, infos) ==
    LET meta == writeMeta(TxnType, cdcId)
    IN  IF txn.DDL # <<>>
        THEN LET buf2 == PutUvarintStr(txn.DDL[1].Database) \o PutUvarintStr(txn.DDL[1].Table)
                             \o PutUvarintStr(txn.DDL[1].Job)
             IN  [err |-> Nil, meta |-> meta,
                  buf1 |-> PutBE(txn.Ts, 8) \o <<DdlOp>> \o PutBE(Len(buf2), 4),
                  buf2 |-> buf2, hash |-> PutBE(Sum32(buf2, 1), 4)]
        ELSE writeDML(meta, txn.Ts, txn.DMLs, infos)

\* writer.flush
flush(w) == w.meta \o w.buf1 \o w.buf2 \o w.hash

\* the writer of a message
WriteMessage(m, infos) ==
    IF m.MsgType = ResolveTsType
    THEN WriteResolveTs(m.CdcID, m.ResloveTs)
    ELSE WriteTxn(m.CdcID, m.Txn, infos)

\* Decbuf: the bytes left and whether a read found too few
Decbuf(bytes) == [B |-> bytes, E |-> FALSE]

RECURSIVE FromBE(_)
FromBE(bytes) ==
    IF bytes = <<>> THEN 0 ELSE FromBE(SubSeq(bytes, 1, Len(bytes) - 1)) * 256 + bytes[Len(bytes)]

\* Decbuf.Byte, Be32, Be32int, Be64, Be64int64: w bytes, 0 once a read failed
DecBE(d, w) ==
    IF d.E \/ Len(d.B) < w
    THEN [v |-> 0, d |-> [d EXCEPT !.E = TRUE]]
    ELSE [v |-> FromBE(SubSeq(d.B, 1, w)), d |-> [d EXCEPT !.B = SubSeq(@, w + 1, Len(@))]]

\* Decbuf.UvarintStr, the empty string once a read failed
UvarintStr(d) ==
    LET l == DecBE(d, 1)
    IN  IF l.d.E \/ Len(l.d.B) < l.v
        THEN [v |-> <<>>, d |-> [l.d EXCEPT !.E = TRUE]]
        ELSE [v |-> SubSeq(l.d.B, 1, l.v), d |-> [l.d EXCEPT !.B = SubSeq(@, l.v + 1, Len(@))]]

\* decodeDMLValues: n values read from d
RECURSIVE decodeDMLValues(_, _, _)
decodeDMLValues(d, n, m) ==
    IF n = 0 THEN [err |-> Nil, values |-> m, d |-> d]
    ELSE LET key == UvarintStr(d)
             text == UvarintStr(key.d)
             dt == UnmarshalDatum(text.v)
         IN  IF dt.err # Nil
             THEN [err |-> dt.err, values |-> m, d |-> text.d]
             ELSE decodeDMLValues(text.d, n - 1, MapPut(m, key.v, dt.datum))

\* the loop of decodeDML over the columns of a DML
RECURSIVE decodeColumns(_, _, _)
decodeColumns(d, n, columns) ==
    IF n = 0 THEN [err |-> Nil, columns |-> columns, d |-> d]
    ELSE LET text == UvarintStr(d)
         IN  IF UnmarshalObject(text.v) # Nil
             THEN [err |-> ErrOther, columns |-> columns, d |-> text.d]
             ELSE decodeColumns(text.d, n - 1, Append(columns, text.v))

\* the loop of decodeDML over the DMLs
RECURSIVE decodeDMLs(_, _, _, _)
decodeDMLs(d, n, dmls, columnsMap) ==
    IF n = 0 THEN [err |-> Nil, dmls |-> dmls, columns |-> columnsMap]
    ELSE LET database == UvarintStr(d)
             table == UvarintStr(database.d)
             tp == DecBE(table.d, 4)
             valueLen == DecBE(tp.d, 4)
             values == decodeDMLValues(valueLen.d, valueLen.v, EmptyMap)
             columnsLen == DecBE(values.d, 4)
             columns == decodeColumns(columnsLen.d, columnsLen.v, <<>>)
             dml == [Database |-> database.v, Table |-> table.v, Tp |-> tp.v,
                     Values |-> values.values]
         IN  IF values.err # Nil
             THEN [err |-> values.err, dmls |-> dmls, columns |-> columnsMap]
             ELSE IF columns.err # Nil
                  THEN [err |-> columns.err, dmls |-> dmls, columns |-> columnsMap]
                  ELSE decodeDMLs(columns.d, n - 1, Append(dmls, dml),
                                  MapPut(columnsMap, <<database.v, table.v>>, columns.columns))

\* what Decode returns when it fails
DecodeError == [err |-> ErrOther, msg |-> NoMessage, columns |-> EmptyMap]

\* decodeDML: the length of the body is read and dropped, the checksum is not read
decodeDML(d, ts) ==
    LET dmlLen == DecBE(d, 4)
        bodyLen == DecBE(dmlLen.d, 4)
        r == decodeDMLs(bodyLen.d, dmlLen.v, <<>>, EmptyMap)
    IN  [err |-> r.err, txn |-> [DDL |-> <<>>, DMLs |-> r.dmls, Ts |-> ts], columns |-> r.columns]

\* decodeDDL
decodeDDL(d, ts) ==
    LET bodyLen == DecBE(d, 4)
        database == UvarintStr(bodyLen.d)
        table == UvarintStr(database.d)
        job == UvarintStr(table.d)
    IN  [err |-> UnmarshalObject(job.v),
         txn |-> [DDL |-> <<[Database |-> database.v, Table |-> table.v, Job |-> job.v]>>,
                  DMLs |-> <<>>, Ts |-> ts],
         columns |-> EmptyMap]

decodeTxnMsg(d) ==
    LET cdcId == UvarintStr(d)
        ts == DecBE(cdcId.d, 8)
        op == DecBE(ts.d, 1)
        r == IF op.v = DmlOp THEN decodeDML(op.d, ts.v) ELSE decodeDDL(op.d, ts.v)
    IN  IF op.v \notin {DmlOp, DdlOp} \/ r.err # Nil
        THEN DecodeError
        ELSE [err |-> Nil,
              msg |-> [CdcID |-> cdcId.v, MsgType |-> TxnType, ResloveTs |-> 0, Txn |-> r.txn],
              columns |-> r.columns]

decodeResloveTsMsg(d) ==
    LET cdcId == UvarintStr(d)
        ts == DecBE(cdcId.d, 8)
    IN  [err |-> Nil,
         msg |-> [CdcID |-> cdcId.v, MsgType |-> ResolveTsType, ResloveTs |-> ts.v,
                  Txn |-> EmptyTxn],
         columns |-> EmptyMap]

\* reader.Decode
Decode(bytes) ==
    LET magic == [k \in 1..4 |-> DecBE(Decbuf(SubSeq(bytes, k, Len(bytes))), 1).v]
        version == DecBE(Decbuf(SubSeq(bytes, 5, Len(bytes))), 1)
        t == DecBE(version.d, 1)
    IN  IF Len(bytes) < 4 \/ magic # MagicIndex
        THEN DecodeError
        ELSE IF t.v = ResolveTsType THEN decodeResloveTsMsg(t.d)
             ELSE IF t.v = TxnType THEN decodeTxnMsg(t.d)
                  ELSE DecodeError

\* the strings of the messages: a name, a key, the JSON text {} of a job or column
NameT == <<116>>

NameU == <<117>>

ObjectText == <<123, 125>>

CdcIds == {<<>>, <<99, 100>>}

\* the values of a row: an int64, a float64, a string
Datums == {[kind |-> "int64", n |-> 7, str |-> <<>>], [kind |-> "float64", n |-> 7, str |-> <<>>],
           [kind |-> "string", n |-> 0, str |-> NameT]}

RowValues == {EmptyMap} \cup {[k \in {<<107>>} |-> datum] : datum \in Datums}

MsgDMLs == [Database : {NameT}, Table : {NameT, NameU}, Tp : {1, 2}, Values : RowValues]

MsgDDLs == {[Database |-> NameT, Table |-> NameT, Job |-> ObjectText]}

\* the infoGetter of the writer: table t.t has one writable column, t.u is not known
TableInfos == [k \in {<<NameT, NameT>>} |-> <<ObjectText>>]

Messages ==
    [CdcID : CdcIds, MsgType : {ResolveTsType}, ResloveTs : 0..MaxMsgTs, Txn : {EmptyTxn}]
        \cup [CdcID : CdcIds, MsgType : {TxnType}, ResloveTs : {0},
              Txn : [DDL : {<<ddl>> : ddl \in MsgDDLs}, DMLs : {<<>>}, Ts : {1, 300}]
                       \cup [DDL : {<<>>},
                             DMLs : UNION {[1..n -> MsgDMLs] : n \in 0..MaxRows},
                             Ts : {1, 300}]]

\* a writer is given a message; what it returns is sent unless it is an error.
\* Each message is written and read on its own, so a behaviour follows one.
WriteEnvelope ==
    /\ message = NoMessage
    /\ \E m \in Messages :
          /\ message' = m
          /\ \E w \in {WriteMessage(m, TableInfos)} :
                data' = IF w.err = Nil THEN flush(w) ELSE <<>>
    /\ altered' = FALSE
    /\ decoded' = NotDecoded
    /\ UNCHANGED <<ownerVars, processorVars, bufferVars, filterVars>>

\* a byte of the body, the part the checksum is taken of, changes on the way
AlterBody ==
    /\ data # <<>>
    /\ ~altered
    /\ decoded = NotDecoded
    /\ \E w \in {WriteMessage(message, TableInfos)} :
          \E k \in 1..Len(w.buf2) :
             \E at \in {Len(w.meta) + Len(w.buf1) + k} :
                data' = [data EXCEPT ![at] = (@ + 1) % 256]
    /\ altered' = TRUE
    /\ UNCHANGED <<message, decoded>>
    /\ UNCHANGED <<ownerVars, processorVars, bufferVars, filterVars>>

\* the reader decodes what it received
DecodeEnvelope ==
    /\ data # <<>>
    /\ decoded = NotDecoded
    /\ decoded' = Decode(data)
    /\ UNCHANGED <<message, data, altered>>
    /\ UNCHANGED <<ownerVars, processorVars, bufferVars, filterVars>>

EnvelopeInit == InitTables({1}) /\ NewProcessor /\ makeBuffer /\ NoFilterTxn

EnvelopeNext ==
    \/ WriteEnvelope
    \/ AlterBody
    \/ DecodeEnvelope

EnvelopeSpec == EnvelopeInit /\ [][EnvelopeNext]_vars

\* the entries of the transactions sent on resolvedEntries so far
DMLsEntries == {i \in 1..Len(resolvedEntries) : resolvedEntries[i].Typ = "DMLS"}

\* the entry a step sends on resolvedEntries, if it sends one
SentEntries ==
    IF Len(resolvedEntries') > Len(resolvedEntries)
    THEN {resolvedEntries'[Len(resolvedEntries')]}
    ELSE {}

\* C22: every transaction sent on resolvedEntries has a commit ts no larger
\* than the global resolved ts globalResolvedWorker read last, and so no larger
\* than the global resolved ts in the storage.
C22_SentUpToGlobalResolvedTs ==
    [][\A e \in SentEntries :
          e.Typ = "DMLS" =>
             /\ e.TS <= lastGlobalResolvedTS
             /\ e.TS <= tsRWriter.globalResolvedTS]_vars

\* transactions of both tables were sent while one table holds back a
\* transaction above the global resolved ts
C22_Witness ==
    /\ \A tableID \in ProcessorTables :
          \E i \in DMLsEntries : resolvedEntries[i].table = tableID
    /\ \E tableID \in DOMAIN tableInputChans :
          tableInputChans[tableID].putBackTxn.TS > lastGlobalResolvedTS

\* the transaction n of table tableID was sent on resolvedEntries
Emitted(entries, tableID, n) ==
    \E i \in 1..Len(entries) :
        entries[i].Typ = "DMLS" /\ entries[i].table = tableID /\ entries[i].n = n

\* C23: when the entry Resolved(ts) is sent, every transaction of commit ts
\* <= ts that a table of the processor has received was sent before it, and no
\* transaction of commit ts <= ts is sent after it.
C23_ResolvedEntryClosesItsTs ==
    /\ [][\A e \in SentEntries :
             e.Typ = "Resolved" =>
                \A tableID \in DOMAIN tableInputChans :
                   \A n \in 1..Len(tableInputChans[tableID].inputTxn) :
                      tableInputChans[tableID].inputTxn[n] <= e.TS =>
                         Emitted(resolvedEntries, tableID, n)]_vars
    /\ [](\A i, j \in 1..Len(resolvedEntries) :
             (/\ i < j
              /\ resolvedEntries[i].Typ = "Resolved"
              /\ resolvedEntries[j].Typ = "DMLS") =>
                 resolvedEntries[j].TS > resolvedEntries[i].TS)

\* C24: the transactions sent on resolvedEntries, of all tables together, have
\* a non-decreasing commit ts.
C24_MergedOutputSorted ==
    \A i, j \in DMLsEntries : i < j => resolvedEntries[i].TS <= resolvedEntries[j].TS

\* the entries of the transactions of a table, in the order they were sent
EntriesOf(tableID) ==
    LET OfTable(e) == e.Typ = "DMLS" /\ e.table = tableID
    IN  SelectSeq(resolvedEntries, OfTable)

\* the transactions of a channel that wait to be sent, in order
Waiting(p) == IF p.putBackTxn = NoTxn THEN p.outputTxn ELSE <<p.putBackTxn>> \o p.outputTxn

\* C25: the transactions of a table sent on resolvedEntries are, in order, the
\* first transactions its input channel delivered, each once and with its
\* commit ts; the others wait in order, the one put back first.
C25_TableOrderKept ==
    \A tableID \in DOMAIN tableInputChans :
        \E p \in {tableInputChans[tableID]}, sent \in {EntriesOf(tableID)} :
            /\ \A k \in 1..Len(sent) : sent[k].n = k /\ sent[k].TS = p.inputTxn[k]
            /\ Len(sent) + Len(Waiting(p)) = Len(p.inputTxn)
            /\ \A k \in 1..Len(Waiting(p)) :
                  Waiting(p)[k] = RawTxn(Len(sent) + k, p.inputTxn[Len(sent) + k])

\* a table sent a transaction in one round and the next one, put back in that
\* round, in a later round
C25_Witness ==
    \E i, j, k \in 1..Len(resolvedEntries) :
        /\ i < j /\ j < k
        /\ resolvedEntries[i].Typ = "DMLS"
        /\ resolvedEntries[j].Typ = "Resolved"
        /\ resolvedEntries[k].Typ = "DMLS"
        /\ resolvedEntries[k].table = resolvedEntries[i].table
        /\ resolvedEntries[k].n = resolvedEntries[i].n + 1
        /\ resolvedEntries[k].TS > resolvedEntries[j].TS

\* C26: the values passed to WriteResolvedTS never go backward, and neither do
\* the values passed to WriteCheckpointTS.
C26_WrittenTsNeverGoBack ==
    [][/\ tsRWriter'.resolvedTS >= tsRWriter.resolvedTS
       /\ tsRWriter'.checkpointTS >= tsRWriter.checkpointTS]_vars

\* C27: once Close is called the three workers exit, so that Close returns,
\* and once Close has returned nothing is written to the storage by the
\* workers and nothing is sent on resolvedEntries.
C27_CloseTerminates ==
    /\ closed ~> CloseReturned
    /\ [][CloseReturned =>
             /\ tsRWriter'.resolvedTS = tsRWriter.resolvedTS
             /\ tsRWriter'.checkpointTS = tsRWriter.checkpointTS
             /\ resolvedEntries' = resolvedEntries]_vars

\* the events of the AddEntry calls that returned nil, in order
Added ==
    LET Fine(r) == r.err = Nil
        fine == SelectSeq(addResults, Fine)
    IN  [k \in 1..Len(fine) |-> fine[k].entry]

\* C28: the events the Get calls returned, followed by the events the buffer
\* holds, are the events of the successful AddEntry calls, in the order of the
\* calls: none is dropped, none comes twice, none overtakes another.
C28_BufferIsFifo == gotEntries \o bufferChan = Added

\* a KV entry and then a resolved event were got while the producer is in
\* its next AddEntry call
C28_Witness ==
    /\ Len(gotEntries) = 2
    /\ gotEntries[1].kind = "Val"
    /\ gotEntries[2].kind = "Resolved"
    /\ addCall # NoEvent

\* the buffer has no room
BufferFull == Len(bufferChan) = BufferSize

\* the result of the AddEntry call that returns in a step, if one does
Returned ==
    IF Len(addResults') > Len(addResults) THEN {addResults'[Len(addResults')]} ELSE {}

\* C29: an AddEntry call that finds the buffer full does not return while its
\* context is live, and when it returns it returns the error of the context
\* and the buffer is as before; a call that returns nil has put its event in
\* the buffer; and while the context is live every call that returned
\* returned nil.
C29_AddEntryWaitsOrFails ==
    /\ []((addCall # NoEvent /\ BufferFull /\ addCtx = "live") => ~ENABLED AddEntryReturn)
    /\ [](addCtx = "live" => \A k \in 1..Len(addResults) : addResults[k].err = Nil)
    /\ [][\A r \in Returned :
             /\ BufferFull => r.err = addCtx /\ addCtx \in ContextErrors
             /\ r.err # Nil => bufferChan' = bufferChan
             /\ r.err = Nil => bufferChan' = Append(bufferChan, r.entry)]_vars

\* nothing was got, the buffer is full, every AddEntry call but the last
\* returned nil and the last the deadline's error
C29_Witness ==
    /\ gotEntries = <<>>
    /\ BufferFull
    /\ Len(addResults) = BufferSize + 1
    /\ \A k \in 1..BufferSize : addResults[k].err = Nil
    /\ addResults[BufferSize + 1].err = "DeadlineExceeded"

ToLowerChar(c) ==
    CASE c = "A" -> "a" [] c = "C" -> "c" [] c = "E" -> "e" [] c = "F" -> "f"
      [] c = "H" -> "h" [] c = "I" -> "i" [] c = "L" -> "l" [] c = "M" -> "m"
      [] c = "N" -> "n" [] c = "O" -> "o" [] c = "P" -> "p" [] c = "Q" -> "q"
      [] c = "R" -> "r" [] c = "S" -> "s" [] c = "T" -> "t" [] c = "Y" -> "y"
      [] OTHER -> c

\* two names of the same length whose characters differ at most in case
SameButCase(a, b) ==
    /\ Len(a) = Len(b)
    /\ \A i \in 1..Len(a) : ToLowerChar(a[i]) = ToLowerChar(b[i])

\* a table FilterTxn is to remove: of a system schema, or rejected by a rule
Unwanted(tbl) ==
    \/ \E sys \in {INFORMATION_SCHEMA, PERFORMANCE_SCHEMA, MYSQL, METRIC_SCHEMA} :
          SameButCase(tbl.Database, sys)
    \/ [Schema |-> tbl.Database, Name |-> tbl.Table] \in filterRules

\* the transaction given was filtered
Filtered == txnOut # EmptyTxn

\* C30: the filtered transaction has the Ts of the one given, its DDL unless
\* that is unwanted, and of its DMLs, in their order, those that are not unwanted.
C30_FilterRemovesUnwanted ==
    Filtered =>
        /\ txnOut.Ts = txnIn.Ts
        /\ txnOut.DDL = IF IsDDL(txnIn) /\ Unwanted(txnIn.DDL[1]) THEN <<>> ELSE txnIn.DDL
        /\ LET Wanted(dml) == ~Unwanted(dml)
           IN  txnOut.DMLs = SelectSeq(txnIn.DMLs, Wanted)

\* a transaction of a DML of mysql and then one of test_mysql was filtered:
\* the second is all that is left
C30_Witness ==
    /\ Filtered
    /\ Len(txnIn.DMLs) = 2
    /\ txnIn.DMLs[1].Database = <<"m", "y", "s", "q", "l">>
    /\ txnIn.DMLs[2].Database = <<"t", "e", "s", "t", "_", "m", "y", "s", "q", "l">>
    /\ txnOut.DMLs = <<txnIn.DMLs[2]>>

\* C31: what Decode returns for the bytes of a writer is the message written,
\* without error; bytes whose body was changed are rejected.
C31_EnvelopeRoundTrip ==
    decoded # NotDecoded =>
        IF altered
        THEN decoded.err # Nil
        ELSE decoded.err = Nil /\ decoded.msg = message

\* the timestamps a tick is held back by: the boundary of every unapplied
\* operation, the startTs of every orphan table, the targetTs of every table to clean
TickBoundaries ==
    UNION {{taskStatus[cid].Operation[t].BoundaryTs :
               t \in {u \in DOMAIN taskStatus[cid].Operation :
                         ~taskStatus[cid].Operation[u].Done}} : cid \in DOMAIN taskStatus}
        \cup Range(orphanTables) \cup Range(toCleanTables)

\* C32: a value a step newly writes to status.ResolvedTs or status.CheckpointTs
\* is at most the boundary of every unapplied operation, the startTs of every
\* orphan table and the targetTs of every table to clean the step finds.
C32_WrittenTsWithinBoundaries ==
    [][/\ status'.ResolvedTs # status.ResolvedTs =>
             \A ts \in TickBoundaries : status'.ResolvedTs <= ts
       /\ status'.CheckpointTs # status.CheckpointTs =>
             \A ts \in TickBoundaries : status'.CheckpointTs <= ts]_vars

\* a table made orphan by a DDL job holds the status at its startTs while the
\* DDL puller and the captures are ahead
C32_Witness ==
    /\ ddlState = ChangeFeedSyncDML
    /\ \E t \in DOMAIN orphanTables :
          /\ orphanTables[t] > StartTs
          /\ status.ResolvedTs = orphanTables[t]
          /\ status.CheckpointTs = orphanTables[t]
    /\ ddlResolvedTs > status.ResolvedTs

\* the job an ApplyJob step has applied
AppliedJob == snapshotJobs'[Len(snapshotJobs')]

JobApplied == snapshotJobs' # snapshotJobs /\ ret' = Nil

\* the ids a table stands for in orphanTables and toCleanTables: those of its
\* partitions if it has any
PhysicalIDs(tid, pids) == IF pids # <<>> THEN Range(pids) ELSE {tid}

\* the tables a job adds: create, recover, the new id of truncate
AddedBy(job) ==
    IF job.Ineligible \/ job.Type \notin {"CreateTable", "RecoverTable", "TruncateTable"}
    THEN {}
    ELSE PhysicalIDs(job.TableInfoID, job.Partitions)

DroppedIDs(tid) ==
    PhysicalIDs(tid, IF tid \in DOMAIN partitions THEN partitions[tid] ELSE <<>>)

\* the tables a job drops: drop table, the tables of drop schema, the old id of truncate
DroppedBy(job) ==
    IF job.Ineligible THEN {}
    ELSE IF job.Type \in {"DropTable", "TruncateTable"} THEN DroppedIDs(job.TableID)
    ELSE IF job.Type = "DropSchema" /\ SchemaID \in DOMAIN schemas
    THEN UNION {DroppedIDs(tid) : tid \in schemas[SchemaID]}
    ELSE {}

EntersAt(m, id, ts) == id \in DOMAIN m /\ m[id] = ts

HeldAtAdd(job) == IF job.Type = "TruncateTable" THEN tables \ {job.TableID} ELSE tables

Unexecuted(history, executedTs) ==
    {history[i].FinishedTS : i \in {j \in 1..Len(history) : history[j].FinishedTS > executedTs}}

\* C34: a value a step newly writes to status.ResolvedTs is at most the
\* ddlResolvedTs the step leaves and at most the finishedTs of every job that
\* is still in ddlJobHistory and was not executed.
C34_ResolvedTsBehindUnexecutedDDL ==
    [][status'.ResolvedTs # status.ResolvedTs =>
          /\ status'.ResolvedTs <= ddlResolvedTs'
          /\ \A ts \in Unexecuted(ddlJobHistory', ddlExecutedTs') : status'.ResolvedTs <= ts]_vars

\* two jobs are in the history; the resolved ts was raised to the finishedTs
\* of the first, below the one of the second and below the DDL puller
C34_Witness ==
    /\ Len(ddlJobHistory) = 2
    /\ status.ResolvedTs > StartTs
    /\ status.ResolvedTs = HeadFinishedTS
    /\ HeadFinishedTS > ddlExecutedTs
    /\ status.ResolvedTs < ddlJobHistory[2].FinishedTS
    /\ status.ResolvedTs < ddlResolvedTs

\* C35: whenever ddlState is WaitToExecDDL, ddlJobHistory is not empty and its
\* head has a finishedTs above ddlExecutedTs, so handleDDL never finds the
\* history empty.
C35_WaitingHasUnexecutedHead ==
    ddlState = ChangeFeedWaitToExecDDL =>
        /\ Len(ddlJobHistory) > 0
        /\ ddlJobHistory[1].FinishedTS > ddlExecutedTs

\* a job was executed, and the next one waits for its turn
C35_Witness ==
    /\ ddlState = ChangeFeedWaitToExecDDL
    /\ ddlExecutedTs > StartTs
    /\ Len(snapshotJobs) > 0
    /\ Len(ddlJobHistory) > 0
    /\ ddlJobHistory[1].FinishedTS > ddlExecutedTs

\* C36: ExecDDL is left before handleDDL returns: after every call of the
\* owner ddlState is SyncDML, WaitToExecDDL or DDLExecuteFailed.
C36_ExecDDLIsTransient ==
    ddlState \in {ChangeFeedSyncDML, ChangeFeedWaitToExecDDL, ChangeFeedDDLExecuteFailed}

\* the tables of the cyclic changefeed
CyclicTables == {1, 3, 11, 12}

\* C37: every table that is in orphanTables is later out of it and listed by
\* a capture, the mark table that became orphan after its table was assigned
\* included.
C37_OrphanEventuallyAssigned ==
    \A t \in CyclicTables :
        (t \in DOMAIN orphanTables) ~> (t \notin DOMAIN orphanTables /\ t \in Listed(taskStatus))

\* the entry Resolved(ts) was sent on resolvedEntries
ResolvedSent(ts) ==
    \E i \in 1..Len(resolvedEntries) :
        resolvedEntries[i].Typ = "Resolved" /\ resolvedEntries[i].TS = ts

\* C38: once globalResolvedWorker has read a new global resolved ts, the entry
\* Resolved(ts) is sent on resolvedEntries, unless the consumer stops reading
\* or the processor is closed.
C38_ResolvedEventuallySent ==
    \A ts \in CommitTs :
        (workers.globalResolvedWorker = "forwarding" /\ lastGlobalResolvedTS = ts)
            ~> (ResolvedSent(ts) \/ ~consuming \/ closed)

\* the jobs PullDDL has returned, followed by those it has yet to return
HandedAndQueued == ddlJobHistory \o hDdlJobs

\* C39: the jobs PullDDL calls have returned, in the order of the calls, and
\* after them the jobs not yet returned, are the jobs received that were not
\* skipped, each once and in the order of their arrival (a job's ID is its
\* place among them); a PullDDL call returns the latest resolved ts received,
\* and every job not yet returned has arrived after the resolved event whose ts
\* the last call returned.
C39_JobsHandedOnceInOrder ==
    /\ [](/\ Len(HandedAndQueued) = numJobs
          /\ \A i \in 1..Len(HandedAndQueued) : HandedAndQueued[i].ID = i
          /\ \A i \in 1..Len(hDdlJobs) : hDdlJobs[i].FinishedTS > ddlResolvedTs)
    /\ [][(ddlResolvedTs' # ddlResolvedTs \/ ddlJobHistory' # ddlJobHistory)
             => ddlResolvedTs' = hResolvedTS]_vars

\* two jobs were received, one skipped entry apart; a call has returned the
\* first with the resolved ts of its time, the second was received since
C39_Witness ==
    /\ Len(ddlJobHistory) = 1
    /\ Len(hDdlJobs) = 1
    /\ ddlResolvedTs >= ddlJobHistory[1].FinishedTS
    /\ hResolvedTS > ddlResolvedTs
    /\ hDdlJobs[1].FinishedTS > hResolvedTS

\* C40: of a table with a channel that SetInputChan rejected, nothing is
\* received from the input channel of the rejected call, and the entry of the
\* table in tableResolvedTS is the commit ts of the last transaction that the
\* registered channel received, if there is an entry.
C40_RejectedChannelLeftAlone ==
    \A tableID \in DOMAIN rejectedChans :
        /\ tableID \in DOMAIN tableInputChans
        /\ rejectedChans[tableID] = <<>>
        /\ \E p \in {tableInputChans[tableID]} :
              tableID \in DOMAIN tableResolvedTS =>
                 /\ p.inputTxn # <<>>
                 /\ tableResolvedTS[tableID] = p.inputTxn[Len(p.inputTxn)]

====
